---- MODULE Spec2Model ----
(***************************************************************************)
(* VoiceDine: the voice loop (useVoiceLoop), the transcript accumulator of *)
(* useVoiceRecorder and the SearchBar handlers that drive them.            *)
(*                                                                         *)
(* Text is modelled as a sequence of one-character strings, so that trim,  *)
(* join and the bracket-suffix parse are computed as the code computes     *)
(* them.  React state is a variable named after the state, a ref is a      *)
(* variable named after the ref.  A closure created by a render is         *)
(* modelled by the values it captured (the `closure` field of a timer or   *)
(* of a request in flight).                                                *)
(***************************************************************************)
EXTENDS Integers, Sequences, FiniteSets, Bags, TLC

VARIABLES
    \* useVoiceLoop state (useState)
    isLoopActive, isProcessing, cycleCount, requirements, lastError,
    \* useVoiceLoop refs (useRef)
    isLoopActiveRef, loopTimeoutRef, initialDelayPassedRef,
    \* the event loop: pending setTimeout callbacks of the voice loop, and
    \* the POST requests awaiting their response
    timers, extractInFlight, searchInFlight, cyclesStarted,
    \* useVoiceRecorder
    isRecording, isConnecting, ws, speakerTranscripts,
    fullTranscriptRef, lastDeltaIndexRef,
    \* the non-empty strings getDeltaTranscript has returned since the last
    \* clearTranscripts, joined with single spaces
    deltasJoined,
    \* SearchBar.handleMicClick: where the async handler stands, and the
    \* values captured by the render that created it
    micPc, micClosure, autoStartAttempts,
    \* StreetView: the booking state (useState), the booking calls awaiting
    \* their response, the pending 5 s timers, the bookings accepted so far
    bookingInProgress, bookingStatus, bookingInFlight, bookingTimers,
    bookingsAccepted,
    \* a raw requirement string and what a parser made of it
    rawReq, parsedReq,
    \* useVoiceRecorder, the recording sessions in detail: one record per call
    \* of startRecording, the refs (0: null, else the number of the session
    \* whose object the ref holds), the error state, and whether the
    \* component that uses the hook is mounted
    sessions, wsRef, mediaStreamRef, audioContextRef, processorRef,
    connectionTimeoutRef, error, mounted,
    \* stopRecording has been called, and startRecording not since
    stopped,
    \* StreetView: the restaurants shown (useState)
    restaurants, resultCount, selectedRestaurant,
    \* the prompt of the search whose answer put the restaurants shown on the
    \* display (empty: none yet)
    shownFor,
    \* StreetView: the rest of its state (useState; viewError is the state
    \* `error`), and the manual searches, the dish requests and the route
    \* requests awaiting their answer
    isLoading, viewError, dishes, dishesLoading, routeCoordinates, routeDistance,
    manualInFlight, dishFetches, routeFetches,
    \* LiveMap: its state (useState; geoError is the state `error`,
    \* liveRestaurants the state `restaurants`), hasSearchedRef, and the
    \* searches awaiting their answer
    position, loading, geoError, liveRestaurants, searching, searchError,
    hasSearchedRef, liveInFlight,
    \* streamRestaurants: where the call stands, the characters the server has
    \* still to send and the events it sends, the locals buffer, receivedCount
    \* and doneReceived, the controller's signal, the callback calls made so
    \* far, and whether a chunk has ended inside an event
    streamPc, wire, served, buffer, receivedCount, doneReceived, aborted, calls,
    splitSeen,
    \* useLiveScribe: the transcript (useState), the error (useState), and the
    \* frames received so far
    transcript, scribeError, scribeReceived,
    \* the last handler that ran with what it received and what it called
    ev

loopVars == <<isLoopActive, isProcessing, cycleCount, requirements, lastError,
              isLoopActiveRef, loopTimeoutRef, initialDelayPassedRef>>
netVars == <<timers, extractInFlight, searchInFlight, cyclesStarted>>
recVars == <<isRecording, isConnecting, ws>>
accVars == <<speakerTranscripts, fullTranscriptRef, lastDeltaIndexRef, deltasJoined>>
micVars == <<micPc, micClosure, autoStartAttempts>>
bookVars == <<bookingInProgress, bookingStatus, bookingInFlight, bookingTimers,
              bookingsAccepted>>
parseVars == <<rawReq, parsedReq>>
refVars == <<wsRef, mediaStreamRef, audioContextRef, processorRef, connectionTimeoutRef>>
sessVars == <<sessions, refVars, error, mounted, stopped>>
mapVars == <<restaurants, resultCount, selectedRestaurant, shownFor>>
streamVars == <<streamPc, wire, served, buffer, receivedCount, doneReceived, aborted,
                calls, splitSeen>>
scribeVars == <<transcript, scribeError, scribeReceived>>
viewVars == <<isLoading, viewError, dishes, dishesLoading, routeCoordinates,
              routeDistance, manualInFlight, dishFetches, routeFetches>>
liveVars == <<position, loading, geoError, liveRestaurants, searching, searchError,
              hasSearchedRef, liveInFlight>>
otherVars == <<mapVars, streamVars, scribeVars, viewVars, liveVars>>
voiceVars == <<loopVars, netVars, recVars, accVars, micVars>>
pageVars == <<bookVars, parseVars, sessVars, otherVars>>
vars == <<voiceVars, pageVars, ev>>

----------------------------------------------------------------------------
\* Bounds of the model

\* cycles (calls of runCycle that pass the isLoopActiveRef guard) in one run
MaxCycles == 2
\* transcript fragments received between two calls of clearTranscripts
MaxFrags == 2
\* length of the raw requirement strings enumerated for the parsers
MaxRawLen == 5
\* booking requests accepted in one run
MaxBookings == 4
\* calls of startRecording in one run of the recording sessions
MaxStarts == 2
\* restaurants in one answer of the search endpoint
MaxResults == 2
\* complete events in one response of the stream endpoint
MaxEvents == 2
\* frames received by the transcription socket of useLiveScribe
MaxSegments == 3

NULL == "null"

----------------------------------------------------------------------------
\* Text

Italian == <<"I","t","a","l","i","a","n">>
GlutenFree == <<"g","l","u","t","e","n","-","f","r","e","e">>
GlutenFreeRaw == GlutenFree \o <<" ","[","S","p","e","a","k","e","r"," ","0","]">>
Blank == <<" ">>
Hello == <<"h","i">>

\* String.prototype.trim
Trim(s) ==
    LET idx == {i \in 1..Len(s) : s[i] \notin {" ", "\n"}}
        lo == CHOOSE i \in idx : \A j \in idx : i <= j
        hi == CHOOSE i \in idx : \A j \in idx : j <= i
    IN  IF idx = {} THEN <<>> ELSE SubSeq(s, lo, hi)

\* Array.prototype.join
RECURSIVE Join(_, _)
Join(ss, sep) ==
    IF ss = <<>> THEN <<>>
    ELSE IF Len(ss) = 1 THEN ss[1]
    ELSE ss[1] \o sep \o Join(Tail(ss), sep)

CommaSpace == <<",", " ">>

\* "0".."9" of a small speaker id
Digit(n) == <<"0","1","2","3","4","5","6","7","8","9">>[n + 1]

\* req.match(/^(.+?)\s*\[(.+?)\]$/): the lazy first group is the shortest
\* non-empty prefix after which come blanks, "[", at least one character and
\* a final "]"; the second group is what stands between that "[" and the
\* final "]".  The result is <<>> when there is no match, else <<g1, g2>>.
BracketMatch(req) ==
    LET n == Len(req)
        Rest(i) == {k \in i + 1 .. n - 2 :
                        /\ req[k] = "["
                        /\ \A j \in i + 1 .. k - 1 : req[j] = " "}
        ok == {i \in 1 .. n - 3 : req[n] = "]" /\ Rest(i) # {}}
        i0 == CHOOSE i \in ok : \A j \in ok : i <= j
        k0 == CHOOSE k \in Rest(i0) : TRUE
    IN  IF ok = {} THEN <<>>
        ELSE <<SubSeq(req, 1, i0), SubSeq(req, k0 + 1, n - 1)>>

\* speaker: undefined
NoSpeaker == <<"undefined">>

\* processWithGrok: one raw requirement string to a RequirementWithSpeaker
\* (the timestamp, Date.now(), is not part of the model)
ParseRequirement(req) ==
    LET m == BracketMatch(req)
    IN  [requirement |-> IF m # <<>> THEN Trim(m[1]) ELSE req,
         speaker |-> IF m # <<>> THEN Trim(m[2]) ELSE NoSpeaker]

ParseAll(raw) == [i \in 1..Len(raw) |-> ParseRequirement(raw[i])]

\* requirements.map(r => r.requirement)
Texts(reqs) == [i \in 1..Len(reqs) |-> reqs[i].requirement]

\* triggerExaSearch: the search prompt
SearchQuery(reqs) == Join(Texts(reqs), CommaSpace)

----------------------------------------------------------------------------
\* What the two endpoints may answer

NoResp == [kind |-> "none", success |-> FALSE, requirements |-> <<>>, error |-> NULL]

\* POST /api/grok/extract: a GrokResponse, or a rejected promise (network
\* failure, non-2xx status, body that is not JSON).  A rejection carries an
\* Error with a message, or a value that is not an Error.
RawLists == {<<>>, <<Italian>>, <<GlutenFreeRaw>>, <<Blank>>, <<Italian, GlutenFreeRaw>>}
NotAnError == "not an Error"
Thrown == {"API error: 500 Internal Server Error", NotAnError}
Extracted(r) == [kind |-> "ok", success |-> TRUE, requirements |-> r, error |-> NULL]
Refused(r, e) == [kind |-> "ok", success |-> FALSE, requirements |-> r, error |-> e]
Rejected(e) == [kind |-> "thrown", success |-> FALSE, requirements |-> <<>>, error |-> e]
ExtractResponses ==
    {Extracted(r) : r \in RawLists}
    \cup {Refused(<<>>, NULL), Refused(<<>>, "quota exceeded"), Refused(<<Italian>>, NULL)}
    \cup {Rejected(e) : e \in Thrown}

\* POST /api/exa/research/sync: a list of restaurants (here their number, in
\* `success`: whether the list is non-empty), or a rejected promise
Found(b) == [kind |-> "ok", success |-> b, requirements |-> <<>>, error |-> NULL]
SearchResponses == {Found(TRUE), Found(FALSE)} \cup {Rejected(e) : e \in Thrown}

\* err instanceof Error ? err.message : fallback
ErrorMsg(e, fallback) == IF e = NotAnError THEN fallback ELSE e

----------------------------------------------------------------------------
\* useVoiceRecorder: the transcript accumulator

\* (a getDeltaTranscript that returns the slice as it is)
ReadDelta_Untrimmed(full, last) ==
    IF last >= Len(full) THEN <<>> ELSE SubSeq(full, last + 1, Len(full))

\* getDeltaTranscript: the value returned
ReadDelta(full, last) ==
    IF last >= Len(full) THEN <<>> ELSE Trim(SubSeq(full, last + 1, Len(full)))

\* the strings returned so far joined with single spaces, `delta` included
\* when it is not empty
JoinedWith(joined, delta) ==
    IF delta = <<>> THEN joined
    ELSE IF joined = <<>> THEN delta
    ELSE joined \o <<" ">> \o delta

\* (a getDeltaTranscript that leaves the cursor where it is)
CursorAfterRead_Stays(full, last) == last

\* (a getDeltaTranscript that moves the cursor past the end of the log)
CursorAfterRead_Beyond(full, last) == Len(full) + 1

\* (a getDeltaTranscript that moves the cursor back to the start)
CursorAfterRead_Rewinds(full, last) == 0

\* getDeltaTranscript: the cursor afterwards
CursorAfterRead(full, last) == IF last >= Len(full) THEN last ELSE Len(full)

\* ws.onmessage: `[Speaker ${speakerId}]: ${newText}`
LabeledText(speakerId, newText) ==
    <<"[","S","p","e","a","k","e","r"," ">> \o <<Digit(speakerId)>>
        \o <<"]", ":", " ">> \o newText

\* (a log that puts the newest fragment first)
AppendToLog_Prepends(full, labeled) ==
    labeled \o (IF full # <<>> THEN <<" ">> ELSE <<>>) \o full

\* ws.onmessage: fullTranscriptRef.current += (fullTranscriptRef.current ? ' ' : '') + labeledText
AppendToLog(full, labeled) == full \o (IF full # <<>> THEN <<" ">> ELSE <<>>) \o labeled

\* (an updater that replaces the speaker's text by the new fragment)
AppendToSpeaker_Overwrites(map, speakerId, newText) ==
    IF \E i \in 1..Len(map) : map[i].speaker = speakerId
    THEN [i \in 1..Len(map) |->
            IF map[i].speaker # speakerId THEN map[i]
            ELSE [speaker |-> speakerId, text |-> newText]]
    ELSE Append(map, [speaker |-> speakerId, text |-> newText])

\* ws.onmessage: the setSpeakerTranscripts updater.  A Map keeps its keys in
\* insertion order: the map is the sequence of its entries.
AppendToSpeaker(map, speakerId, newText) ==
    IF \E i \in 1..Len(map) : map[i].speaker = speakerId
    THEN [i \in 1..Len(map) |->
            IF map[i].speaker # speakerId THEN map[i]
            ELSE [speaker |-> speakerId,
                  text |-> IF map[i].text # <<>>
                           THEN map[i].text \o <<" ">> \o newText
                           ELSE newText]]
    ELSE Append(map, [speaker |-> speakerId, text |-> newText])

\* (a clearTranscripts that leaves the delta cursor where it is)
clearTranscripts_KeepsCursor ==
    /\ speakerTranscripts' = <<>>
    /\ fullTranscriptRef' = <<>>
    /\ lastDeltaIndexRef' = lastDeltaIndexRef
    /\ deltasJoined' = <<>>

\* clearTranscripts
clearTranscripts ==
    /\ speakerTranscripts' = <<>>
    /\ fullTranscriptRef' = <<>>
    /\ lastDeltaIndexRef' = 0
    /\ deltasJoined' = <<>>

\* getMergedTranscript
MergedTranscript(map) ==
    LET trimmed == [i \in 1..Len(map) |-> Trim(map[i].text)]
        NonEmpty(t) == t # <<>>
    IN  Join(SelectSeq(trimmed, NonEmpty), <<" ">>)

----------------------------------------------------------------------------
\* useVoiceLoop

\* What the last handler did: `req` the request it was the answer to, `resp`
\* the answer, `onError` the message given to onError (NULL: not called),
\* `extracted` the list given to onRequirementsExtracted (empty: not called),
\* `results` whether onExaResults was called, `search` the search requests it
\* sent, `scheduled` whether it set the cycle timer.  (`req` and `search` are
\* sets of at most one request.)  `msg` is the transcript message or the
\* click the handler received, or the timer that called it (a set of at
\* most one), `value` the text it
\* returned (for clearTranscripts: the log it discarded).
Event(op, req, resp, onError, extracted, results, search, scheduled) ==
    [op |-> op, req |-> req, resp |-> resp, onError |-> onError,
     extracted |-> extracted, results |-> results, search |-> search,
     scheduled |-> scheduled, msg |-> {}, value |-> <<>>]
Did(op) == Event(op, {}, NoResp, NULL, <<>>, FALSE, {}, FALSE)

\* Bags of timers and of requests: several equal ones may be alive
Add(bag, x) == bag (+) SetToBag({x})
Remove(bag, x) == bag (-) SetToBag({x})
AddAll(bag, set) == bag (+) SetToBag(set)

\* setTimeout(callback, delay) by the voice loop: `kind` is the callback
\* ("initial": the arrow function of startLoop, "cycle": runCycle), `closure`
\* the `requirements` captured by the render whose runCycle the callback
\* calls, `tracked` whether loopTimeoutRef holds the handle of this timer.
\* loopTimeoutRef is "null", or "set" when it holds a handle (of the tracked
\* timer if there is one, else of a timer that has fired).
Timer(kind, closure) == [kind |-> kind, closure |-> closure, tracked |-> TRUE]

\* loopTimeoutRef.current = setTimeout(...): the handle held before is lost
Untrack(t) == [t EXCEPT !.tracked = FALSE]
SetTimeout(pending, kind, closure) ==
    Add(BagOfAll(Untrack, pending), Timer(kind, closure))

\* clearTimeout(loopTimeoutRef.current)
ClearTimeout(pending) ==
    LET keep == {t \in DOMAIN pending : ~t.tracked}
    IN  [t \in keep |-> pending[t]]

\* (a startLoop without its guard)
startLoop_Restarts(closure) ==
    /\ isLoopActiveRef' = TRUE
    /\ isLoopActive' = TRUE
    /\ initialDelayPassedRef' = FALSE
    /\ cycleCount' = 0
    /\ requirements' = <<>>
    /\ lastError' = NULL
    /\ loopTimeoutRef' = "set"
    /\ timers' = SetTimeout(timers, "initial", closure)
    /\ UNCHANGED <<isProcessing, extractInFlight, searchInFlight, cyclesStarted>>

\* startLoop, called through the function a render created when the master
\* list was `closure`
startLoop(closure) ==
    IF isLoopActiveRef
    THEN UNCHANGED <<loopVars, netVars>>
    ELSE /\ isLoopActiveRef' = TRUE
         /\ isLoopActive' = TRUE
         /\ initialDelayPassedRef' = FALSE
         /\ cycleCount' = 0
         /\ requirements' = <<>>
         /\ lastError' = NULL
         /\ loopTimeoutRef' = "set"
         /\ timers' = SetTimeout(timers, "initial", closure)
         /\ UNCHANGED <<isProcessing, extractInFlight, searchInFlight, cyclesStarted>>

\* The `stopped` mark of a request in flight is bookkeeping for the
\* properties, not program state: stopLoop was called after the request left.
MarkStopped(c) == [c EXCEPT !.stopped = TRUE]

\* stopLoop
stopLoop ==
    /\ isLoopActiveRef' = FALSE
    /\ isLoopActive' = FALSE
    /\ timers' = IF loopTimeoutRef # "null" THEN ClearTimeout(timers) ELSE timers
    /\ loopTimeoutRef' = "null"
    /\ extractInFlight' = BagOfAll(MarkStopped, extractInFlight)
    /\ UNCHANGED <<isProcessing, cycleCount, requirements, lastError,
                   initialDelayPassedRef, searchInFlight, cyclesStarted>>

\* runCycle, lines 216-218: is the next cycle scheduled
SchedulesNext == isLoopActiveRef

\* runCycle, lines 216-218: the pending timers afterwards
ScheduleNext(pending, closure) ==
    IF SchedulesNext THEN SetTimeout(pending, "cycle", closure) ELSE pending

\* (a runCycle without the test of line 169)
HasDelta_Always(delta) == TRUE

\* runCycle, line 169: is there a delta to process (processWithGrok makes
\* the same test again at line 88)
HasDelta(delta) == delta # <<>> /\ Trim(delta) # <<>>

\* processWithGrok, line 93: existingReqs, for the runCycle whose render saw
\* `closure` as the master list
ExistingReqs(closure) == Texts(closure)

\* runCycle up to its first await, called by the timer `t`
runCycle(t) ==
    LET delta == ReadDelta(fullTranscriptRef, lastDeltaIndexRef)
        request == [transcript |-> delta,
                    \* (an empty list is sent as undefined)
                    existing_requirements |-> ExistingReqs(t.closure),
                    closure |-> t.closure, stopped |-> FALSE]
    IN
    IF ~isLoopActiveRef
    THEN /\ timers' = Remove(timers, t)
         /\ ev' = [Did("runCycle:inactive") EXCEPT !.msg = {t}]
         /\ UNCHANGED <<isLoopActive, isProcessing, cycleCount, requirements, lastError,
                        isLoopActiveRef, loopTimeoutRef, extractInFlight, searchInFlight,
                        cyclesStarted, lastDeltaIndexRef, deltasJoined>>
    ELSE /\ cyclesStarted < MaxCycles
         /\ cyclesStarted' = cyclesStarted + 1
         /\ cycleCount' = cycleCount + 1
         /\ lastDeltaIndexRef' = CursorAfterRead(fullTranscriptRef, lastDeltaIndexRef)
         /\ deltasJoined' = JoinedWith(deltasJoined, delta)
         /\ IF HasDelta(delta)
            THEN \* processWithGrok: the request leaves, the cycle awaits
                 /\ isProcessing' = TRUE
                 /\ extractInFlight' = Add(extractInFlight, request)
                 /\ timers' = Remove(timers, t)
                 /\ ev' = [Did("runCycle:extract") EXCEPT !.req = {request}, !.msg = {t}]
                 /\ UNCHANGED loopTimeoutRef
            ELSE \* no delta: finally, then the next timer
                 /\ isProcessing' = FALSE
                 /\ timers' = ScheduleNext(Remove(timers, t), t.closure)
                 /\ loopTimeoutRef' = IF SchedulesNext THEN "set" ELSE loopTimeoutRef
                 /\ ev' = [Did("runCycle:skip") EXCEPT !.scheduled = SchedulesNext, !.msg = {t}]
                 /\ UNCHANGED extractInFlight
         /\ UNCHANGED <<isLoopActive, requirements, lastError, isLoopActiveRef,
                        searchInFlight>>

\* A timer of the voice loop fires
TimerFires(t) ==
    /\ BagIn(t, timers)
    /\ initialDelayPassedRef' = IF t.kind = "initial" THEN TRUE ELSE initialDelayPassedRef
    /\ runCycle(t)
    /\ UNCHANGED <<recVars, micVars, speakerTranscripts, fullTranscriptRef, pageVars>>

\* processWithGrok after the await: the new requirements it returns
NewRequirements(resp) ==
    IF resp.kind = "ok" /\ resp.success /\ Len(resp.requirements) > 0
    THEN ParseAll(resp.requirements)
    ELSE <<>>

\* (a processWithGrok whose catch block reports nothing)
ExtractError_Swallows(resp) ==
    IF resp.kind = "ok" /\ ~resp.success /\ resp.error # NULL THEN resp.error
    ELSE NULL

\* processWithGrok after the await: the error it reports (NULL: none)
ExtractError(resp) ==
    IF resp.kind = "thrown" THEN ErrorMsg(resp.error, "Failed to process with Grok")
    ELSE IF ~resp.success /\ resp.error # NULL THEN resp.error
    ELSE NULL

\* triggerExaSearch up to its await: the requests it sends
SearchRequests(reqs) ==
    IF Len(reqs) = 0 THEN {}
    ELSE IF Trim(SearchQuery(reqs)) = <<>> THEN {}
    ELSE {[prompt |-> SearchQuery(reqs)]}

\* (a runCycle that searches after every extraction)
CycleSearches_IgnoresNew(updated, new) == SearchRequests(updated)

\* runCycle, lines 175-203: the requests sent once processWithGrok has
\* returned `new` and the master list has become `updated`
CycleSearches(updated, new) ==
    IF Len(new) > 0 THEN SearchRequests(updated) ELSE {}

\* (a runCycle that replaces the list by the new requirements)
UpdatedRequirements_Replaces(prev, new) == IF Len(new) > 0 THEN new ELSE prev

\* runCycle, lines 178-182: the master list once processWithGrok has returned
\* `new`
UpdatedRequirements(prev, new) == IF Len(new) > 0 THEN prev \o new ELSE prev

\* The extraction request `c` is answered: the rest of processWithGrok and of
\* runCycle.  The setRequirements updater (which calls
\* onRequirementsExtracted and triggerExaSearch) runs inside the
\* setRequirements call when React computes the state eagerly, else during
\* the next render, after the finally block: isProcessing ends false in the
\* first case and true in the second.
ExtractResponds(c, resp, eager) ==
    LET new == NewRequirements(resp)
        err == ExtractError(resp)
        updated == UpdatedRequirements(requirements, new)
        searches == CycleSearches(updated, new)
    IN  /\ BagIn(c, extractInFlight)
        /\ extractInFlight' = Remove(extractInFlight, c)
        /\ lastError' = IF err # NULL THEN err ELSE lastError
        /\ requirements' = updated
        /\ searchInFlight' = AddAll(searchInFlight, searches)
        /\ isProcessing' = (Len(new) > 0 /\ ~eager)
        /\ timers' = ScheduleNext(timers, c.closure)
        /\ loopTimeoutRef' = IF SchedulesNext THEN "set" ELSE loopTimeoutRef
        /\ ev' = Event("extractResponse", {c}, resp, err,
                       IF Len(new) > 0 THEN updated ELSE <<>>, FALSE,
                       searches, SchedulesNext)
        /\ UNCHANGED <<isLoopActive, cycleCount, isLoopActiveRef, initialDelayPassedRef,
                       cyclesStarted, recVars, accVars, micVars, pageVars>>

\* triggerExaSearch after the await: the error it reports (NULL: none)
SearchError(resp) ==
    IF resp.kind = "thrown" THEN ErrorMsg(resp.error, "Exa search failed") ELSE NULL

\* triggerExaSearch after the await: is onExaResults called
CallsOnExaResults(resp) == resp.kind = "ok" /\ resp.success

\* triggerExaSearch after the await, in the hook
triggerExaSearchReturns(s, resp) ==
    /\ BagIn(s, searchInFlight)
    /\ searchInFlight' = Remove(searchInFlight, s)
    /\ lastError' = IF SearchError(resp) # NULL THEN SearchError(resp) ELSE lastError
    /\ UNCHANGED <<isLoopActive, isProcessing, cycleCount, requirements,
                   isLoopActiveRef, loopTimeoutRef, initialDelayPassedRef,
                   timers, extractInFlight, cyclesStarted, recVars, accVars, micVars>>

\* The search request `s` is answered: the rest of triggerExaSearch
SearchResponds(s, resp) ==
    /\ triggerExaSearchReturns(s, resp)
    /\ ev' = Event("searchResponse", {s}, resp, SearchError(resp), <<>>,
                   CallsOnExaResults(resp), {}, FALSE)
    /\ UNCHANGED pageVars

----------------------------------------------------------------------------
\* useVoiceRecorder: the recording session.  `ws` is the state of the socket
\* wsRef points to ("none": wsRef is null).

\* cleanup
cleanup ==
    /\ ws' = "none"
    /\ isRecording' = FALSE
    /\ isConnecting' = FALSE

\* startRecording, microphone granted: the socket is created
startRecording ==
    /\ ws' = "connecting"
    /\ isConnecting' = TRUE
    /\ UNCHANGED isRecording

\* ws.onopen
WsOpens ==
    /\ ws = "connecting"
    /\ ws' = "open"
    /\ isConnecting' = FALSE
    /\ isRecording' = TRUE
    /\ ev' = Did("ws.onopen")
    /\ UNCHANGED <<loopVars, netVars, accVars, micVars, pageVars>>

\* the number of fragments in the log (the fragments of the model hold no ":")
FragmentCount(full) == Cardinality({i \in 1..Len(full) : full[i] = ":"})

\* ws.onmessage with a transcript message
OnTranscript(speakerId, text) ==
    LET newText == Trim(text)
    IN  /\ ws = "open"
        /\ FragmentCount(fullTranscriptRef) < MaxFrags
        /\ IF newText # <<>>
           THEN /\ fullTranscriptRef' =
                      AppendToLog(fullTranscriptRef, LabeledText(speakerId, newText))
                /\ speakerTranscripts' =
                      AppendToSpeaker(speakerTranscripts, speakerId, newText)
           ELSE UNCHANGED <<fullTranscriptRef, speakerTranscripts>>
        /\ ev' = [Did("ws.onmessage") EXCEPT
                    !.msg = {[speakerId |-> speakerId, text |-> text]}]
        /\ UNCHANGED <<loopVars, netVars, recVars, micVars, lastDeltaIndexRef, deltasJoined,
                       pageVars>>

\* The functions the hook returns, called by its client

\* startRecording, called when no socket exists
StartRecording ==
    /\ ws = "none"
    /\ startRecording
    /\ ev' = Did("startRecording")
    /\ UNCHANGED <<loopVars, netVars, accVars, micVars, pageVars>>

\* stopRecording
stopRecording ==
    /\ cleanup
    /\ ev' = Did("stopRecording")
    /\ UNCHANGED <<loopVars, netVars, accVars, micVars, pageVars>>

\* getDeltaTranscript
getDeltaTranscript ==
    /\ lastDeltaIndexRef' = CursorAfterRead(fullTranscriptRef, lastDeltaIndexRef)
    /\ deltasJoined' = JoinedWith(deltasJoined, ReadDelta(fullTranscriptRef, lastDeltaIndexRef))
    /\ ev' = [Did("getDeltaTranscript") EXCEPT
                !.value = ReadDelta(fullTranscriptRef, lastDeltaIndexRef)]
    /\ UNCHANGED <<loopVars, netVars, recVars, micVars, speakerTranscripts,
                   fullTranscriptRef, pageVars>>

\* (a getFullTranscript that consumes what it returns)
getFullTranscript_Drains ==
    /\ ev' = [Did("getFullTranscript") EXCEPT !.value = fullTranscriptRef]
    /\ lastDeltaIndexRef' = Len(fullTranscriptRef)
    /\ UNCHANGED <<loopVars, netVars, recVars, micVars, speakerTranscripts,
                   fullTranscriptRef, deltasJoined, pageVars>>

\* getFullTranscript
getFullTranscript ==
    /\ ev' = [Did("getFullTranscript") EXCEPT !.value = fullTranscriptRef]
    /\ UNCHANGED <<loopVars, netVars, recVars, micVars, accVars, pageVars>>

\* clearTranscripts, called on its own
ClearTranscripts ==
    /\ clearTranscripts
    /\ ev' = [Did("clearTranscripts") EXCEPT !.value = fullTranscriptRef]
    /\ UNCHANGED <<loopVars, netVars, recVars, micVars, pageVars>>

----------------------------------------------------------------------------
\* SearchBar

MAX_ATTEMPTS == 3

\* the auto-start effect's timer fires (autoStartRecording is true)
AutoStartFires ==
    /\ ~isRecording /\ ~isConnecting /\ autoStartAttempts < MAX_ATTEMPTS
    /\ startRecording
    /\ autoStartAttempts' = autoStartAttempts + 1
    /\ ev' = Did("autoStart")
    /\ UNCHANGED <<loopVars, netVars, accVars, micPc, micClosure, pageVars>>

\* the start-loop effect: the render shows isRecording and not isLoopActive,
\* and calls the startLoop it created itself
EffectStartLoop ==
    /\ isRecording /\ ~isLoopActive
    /\ startLoop(requirements)
    /\ ev' = Did("effect:startLoop")
    /\ UNCHANGED <<recVars, accVars, micVars, pageVars>>

\* handleMicClick up to its first await.  The handler and the startLoop it
\* will call were created by the current render.  One click is handled at a
\* time.
MicClick ==
    /\ micPc = "idle"
    /\ micClosure' = requirements
    /\ IF isRecording
       THEN /\ cleanup
            /\ stopLoop
            /\ IF Trim(MergedTranscript(speakerTranscripts)) # <<>>
               THEN /\ micPc' = "onSearch"
                    /\ UNCHANGED accVars
               ELSE /\ micPc' = "timer"
                    /\ clearTranscripts
       ELSE /\ clearTranscripts
            /\ startRecording
            /\ micPc' = "startLoop"
            /\ UNCHANGED <<loopVars, netVars>>
    /\ ev' = Did("micClick")
    /\ UNCHANGED <<autoStartAttempts, pageVars>>

\* handleMicClick: onSearch has returned
MicSearchReturns ==
    /\ micPc = "onSearch"
    /\ clearTranscripts
    /\ micPc' = "timer"
    /\ ev' = Did("mic:onSearch returned")
    /\ UNCHANGED <<loopVars, netVars, recVars, micClosure, autoStartAttempts, pageVars>>

\* handleMicClick: the 300 ms timer fires
MicTimerFires ==
    /\ micPc = "timer"
    /\ startRecording
    /\ micPc' = "startLoop"
    /\ ev' = Did("mic:timer")
    /\ UNCHANGED <<loopVars, netVars, accVars, micClosure, autoStartAttempts, pageVars>>

\* handleMicClick: startRecording has returned, startLoop is called
MicStartLoop ==
    /\ micPc = "startLoop"
    /\ startLoop(micClosure)
    /\ micPc' = "idle"
    /\ micClosure' = <<>>
    /\ ev' = Did("mic:startLoop")
    /\ UNCHANGED <<recVars, accVars, autoStartAttempts, pageVars>>

----------------------------------------------------------------------------
\* StreetView: booking

\* bookingStatus: null
NoStatus == [name |-> NULL, status |-> NULL, message |-> NULL]

\* the restaurants shown (their names are not empty)
Restaurants == {"Chez A", "Chez B"}

\* POST /api/booking/book: a body, or a rejected promise
Booked == [kind |-> "ok", success |-> TRUE, requirements |-> <<>>, error |-> NULL]
BookingResponses == {Booked} \cup {Rejected(e) : e \in Thrown}

\* the Make Booking button of a restaurant: disabled
BookingDisabled(restaurantName) == bookingInProgress = restaurantName

\* (a handleBooking without its guard)
BookingPending_Never(inProgress) == FALSE

\* handleBooking: if (bookingInProgress)
BookingPending(inProgress) == inProgress # NULL /\ inProgress # ""

\* the Make Booking button of a restaurant is clicked: handleBooking up to
\* its await.  React renders between two clicks: the handler called is the
\* one of the render that shows the current state.
BookingClick(restaurantName) ==
    LET call == [restaurant_name |-> restaurantName]
        click == {[restaurantName |-> restaurantName]}
    IN
    /\ UNCHANGED <<voiceVars, parseVars, sessVars, otherVars>>
    /\ IF BookingDisabled(restaurantName)
       THEN /\ ev' = [Did("booking:disabled") EXCEPT !.msg = click]
            /\ UNCHANGED bookVars
       ELSE IF BookingPending(bookingInProgress)
       THEN /\ ev' = [Did("handleBooking:ignored") EXCEPT !.msg = click]
            /\ UNCHANGED bookVars
       ELSE /\ bookingsAccepted < MaxBookings
            /\ bookingsAccepted' = bookingsAccepted + 1
            /\ bookingInProgress' = restaurantName
            /\ bookingStatus' = NoStatus
            /\ bookingInFlight' = Add(bookingInFlight, call)
            /\ ev' = [Did("handleBooking") EXCEPT !.msg = click, !.req = {call}]
            /\ UNCHANGED bookingTimers

\* handleBooking: the status it records
BookingStatus(restaurantName, resp) ==
    IF resp.kind = "ok"
    THEN [name |-> restaurantName, status |-> "success",
          message |-> "Call initiated! James is booking your table..."]
    ELSE [name |-> restaurantName, status |-> "error",
          message |-> ErrorMsg(resp.error, "Failed to initiate call")]

\* (a handleBooking that clears the marker only when the call succeeds)
MarkerAfterBooking_StuckOnError(restaurantName, resp) ==
    IF resp.kind = "ok" THEN NULL ELSE restaurantName

\* handleBooking, finally: setBookingInProgress(null)
MarkerAfterBooking(restaurantName, resp) == NULL

\* the booking call `c` is answered: the rest of handleBooking
BookingResponds(c, resp) ==
    /\ BagIn(c, bookingInFlight)
    /\ bookingInFlight' = Remove(bookingInFlight, c)
    /\ bookingStatus' = BookingStatus(c.restaurant_name, resp)
    /\ bookingInProgress' = MarkerAfterBooking(c.restaurant_name, resp)
    /\ bookingTimers' = bookingTimers + 1
    /\ ev' = [Did("bookingResponse") EXCEPT !.req = {c}, !.resp = resp]
    /\ UNCHANGED <<bookingsAccepted, voiceVars, parseVars, sessVars, otherVars>>

\* a 5 s timer of handleBooking fires: setBookingStatus(null)
BookingTimerFires ==
    /\ bookingTimers > 0
    /\ bookingTimers' = bookingTimers - 1
    /\ bookingStatus' = NoStatus
    /\ ev' = Did("booking:statusTimer")
    /\ UNCHANGED <<bookingInProgress, bookingInFlight, bookingsAccepted,
                   voiceVars, parseVars, sessVars, otherVars>>

----------------------------------------------------------------------------
\* The two parsers of a raw requirement string

\* nothing parsed yet
NotParsed == [by |-> "none", text |-> <<>>, speaker |-> <<>>]

Unknown == <<"U","n","k","n","o","w","n">>

\* useRequirementsStore: parseRequirement
parseRequirement(req) ==
    LET m == BracketMatch(req)
    IN  [text |-> IF m # <<>> THEN Trim(m[1]) ELSE req,
         speaker |-> IF m # <<>> THEN Trim(m[2]) ELSE Unknown]

\* processWithGrok parses the raw requirement
LoopParses ==
    /\ parsedReq' = [by |-> "loop",
                     text |-> ParseRequirement(rawReq).requirement,
                     speaker |-> ParseRequirement(rawReq).speaker]
    /\ UNCHANGED <<voiceVars, bookVars, sessVars, otherVars, rawReq, ev>>

\* addRequirements parses the raw requirement
StoreParses ==
    /\ parsedReq' = [by |-> "store",
                     text |-> parseRequirement(rawReq).text,
                     speaker |-> parseRequirement(rawReq).speaker]
    /\ UNCHANGED <<voiceVars, bookVars, sessVars, otherVars, rawReq, ev>>

\* The raw requirement strings: every string of at most MaxRawLen characters
\* over a letter, the blank and the two brackets, and some longer examples
Alphabet == {"a", " ", "[", "]"}
SushiRaw ==
    <<"I"," ","w","a","n","t"," ","s","u","s","h","i"," ",
      "[","S","p","e","a","k","e","r"," ","0","]">>
ThaiRaw ==
    <<"T","h","a","i"," ","[","h","o","t","]"," ",
      "[","S","p","e","a","k","e","r"," ","1","]">>
RawReqs ==
    UNION {[1..n -> Alphabet] : n \in 0..MaxRawLen}
        \cup {SushiRaw, ThaiRaw, Italian, GlutenFreeRaw}

----------------------------------------------------------------------------
\* useVoiceRecorder: the recording sessions in detail.  Every call of
\* startRecording makes one session: the microphone stream it asks for, the
\* socket, the 5 s connection timer, the AudioContext and the processor it
\* creates.  The handlers of a socket stay attached when wsRef moves on.
\* `sent` is the sequence of the frames sent on the socket, a run of audio
\* frames being kept as one "audio".

\* a session whose getUserMedia is awaited
NewSession ==
    [pc |-> "getUserMedia", stream |-> "none", readyState |-> "NONE",
     sent |-> <<>>, context |-> "none", processor |-> "none", timeout |-> FALSE]

\* what getUserMedia may reject with: the name of an Error, or a value that
\* is not an Error
GumErrors == {"NotAllowedError", "NotFoundError", "NotReadableError", NotAnError}

\* startRecording, lines 202-214: the message of the catch block
StartError(err) ==
    IF err = NotAnError THEN "Failed to start recording"
    ELSE IF err = "NotAllowedError" THEN "Microphone permission denied"
    ELSE IF err = "NotFoundError" THEN "No microphone found"
    ELSE "Could not start audio source"

ConnectionError == "Connection error. Please try again."

\* (a cleanup that closes the socket without the commit frame)
CommitBeforeClose_Skips(sent) == sent

\* cleanup, lines 65-73: the frames of the open socket wsRef holds
CommitBeforeClose(sent) == Append(sent, "commit")

\* cleanup, lines 49-74: what becomes of the objects the refs hold
CleanedSessions(ss) ==
    [k \in 1..Len(ss) |->
        [ss[k] EXCEPT
            !.timeout = IF connectionTimeoutRef = k THEN FALSE ELSE @,
            !.processor = IF processorRef = k THEN "disconnected" ELSE @,
            !.context = IF audioContextRef = k /\ @ # "closed" THEN "closed" ELSE @,
            !.stream = IF mediaStreamRef = k THEN "stopped" ELSE @,
            !.sent = IF wsRef = k /\ ss[k].readyState = "OPEN"
                     THEN CommitBeforeClose(@) ELSE @,
            !.readyState = IF wsRef = k /\ @ = "OPEN" THEN "CLOSING" ELSE @]]

\* cleanup, called by a handler that has made the sessions `ss`
Cleanup(ss) ==
    /\ sessions' = CleanedSessions(ss)
    /\ connectionTimeoutRef' = 0
    /\ processorRef' = 0
    /\ audioContextRef' = IF audioContextRef # 0 /\ ss[audioContextRef].context # "closed"
                          THEN 0 ELSE audioContextRef
    /\ mediaStreamRef' = 0
    /\ wsRef' = 0
    /\ isRecording' = FALSE
    /\ isConnecting' = FALSE

\* what the session actions leave alone
outsideSession == <<loopVars, netVars, ws, bookVars, parseVars, otherVars>>

\* the last handler, with the session it belongs to
DidIn(op, k) == [Did(op) EXCEPT !.msg = {[session |-> k]}]

\* startRecording up to `await getUserMedia`
BeginRecording ==
    /\ Len(sessions) < MaxStarts
    /\ error' = NULL
    /\ isConnecting' = TRUE
    /\ sessions' = Append(sessions, NewSession)
    /\ stopped' = FALSE
    /\ UNCHANGED <<isRecording, refVars, mounted>>

\* the mic button is clicked while nothing is recorded (the button is
\* disabled while isConnecting): handleMicClick, lines 152-153
MicStart ==
    /\ mounted /\ micPc = "idle" /\ ~isRecording /\ ~isConnecting
    /\ clearTranscripts
    /\ BeginRecording
    /\ ev' = DidIn("micStart", Len(sessions) + 1)
    /\ UNCHANGED <<outsideSession, micVars>>

\* the mic button is clicked while recording: handleMicClick, lines 134-150,
\* when there is nothing to search for.  stopRecording, clearTranscripts,
\* and the 300 ms timer is set.
MicStop ==
    /\ mounted /\ micPc = "idle" /\ isRecording /\ ~isConnecting
    /\ Trim(MergedTranscript(speakerTranscripts)) = <<>>
    /\ Cleanup(sessions)
    /\ clearTranscripts
    /\ micPc' = "timer"
    /\ stopped' = TRUE
    /\ ev' = Did("micStop")
    /\ UNCHANGED <<outsideSession, micClosure, autoStartAttempts, error, mounted>>

\* the 300 ms timer of handleMicClick fires: startRecording
MicRestart ==
    /\ micPc = "timer"
    /\ BeginRecording
    /\ micPc' = "idle"
    /\ ev' = DidIn("micRestart", Len(sessions) + 1)
    /\ UNCHANGED <<outsideSession, accVars, micClosure, autoStartAttempts>>

\* the timer of the auto-start effect fires.  The effect sets the timer in a
\* render that shows neither isRecording nor isConnecting and fewer than
\* MAX_ATTEMPTS attempts, and clears it when one of them changes.
AutoStart ==
    /\ mounted /\ ~isRecording /\ ~isConnecting /\ autoStartAttempts < MAX_ATTEMPTS
    /\ BeginRecording
    /\ autoStartAttempts' = autoStartAttempts + 1
    /\ ev' = DidIn("autoStart", Len(sessions) + 1)
    /\ UNCHANGED <<outsideSession, accVars, micPc, micClosure>>

\* getUserMedia resolves: startRecording, lines 98-200
GetUserMediaResolves(k) ==
    /\ sessions[k].pc = "getUserMedia"
    /\ sessions' = [sessions EXCEPT ![k].pc = "started", ![k].stream = "live",
                                    ![k].readyState = "CONNECTING",
                                    ![k].timeout = TRUE]
    /\ mediaStreamRef' = k
    /\ wsRef' = k
    /\ connectionTimeoutRef' = k
    /\ ev' = DidIn("getUserMedia:resolved", k)
    /\ UNCHANGED <<outsideSession, accVars, micVars, isRecording, isConnecting,
                   audioContextRef, processorRef, error, mounted, stopped>>

\* getUserMedia rejects: startRecording, lines 202-217
GetUserMediaRejects(k, err) ==
    /\ sessions[k].pc = "getUserMedia"
    /\ error' = StartError(err)
    /\ Cleanup([sessions EXCEPT ![k].pc = "failed"])
    /\ ev' = DidIn("getUserMedia:rejected", k)
    /\ UNCHANGED <<outsideSession, accVars, micVars, mounted, stopped>>

\* the connection timer of session k fires: lines 105-113
ConnectionTimeout(k) ==
    LET fired == [sessions EXCEPT ![k].timeout = FALSE]
        closed == [fired EXCEPT ![k].readyState =
                        IF @ = "CONNECTING" THEN "CLOSING" ELSE @]
    IN  /\ sessions[k].timeout
        /\ IF sessions[k].readyState # "OPEN"
           THEN /\ error' = "Connection timed out"
                /\ Cleanup(closed)
           ELSE /\ sessions' = fired
                /\ UNCHANGED <<refVars, error, isRecording, isConnecting>>
        /\ ev' = DidIn("connectionTimeout", k)
        /\ UNCHANGED <<outsideSession, accVars, micVars, mounted, stopped>>

\* ws.onopen, lines 115-133: is `await audioContext.resume()` reached (the
\* new AudioContext is suspended)
OnOpen(k, suspended) ==
    LET c == connectionTimeoutRef
        cleared == IF c # 0 THEN [sessions EXCEPT ![c].timeout = FALSE] ELSE sessions
        opened == [cleared EXCEPT ![k].readyState = "OPEN",
                                  ![k].sent = Append(@, "config")]
    IN  /\ sessions[k].readyState = "CONNECTING"
        /\ connectionTimeoutRef' = 0
        /\ IF suspended
           THEN /\ sessions' = [opened EXCEPT ![k].context = "suspended"]
                /\ UNCHANGED <<audioContextRef, processorRef, isRecording, isConnecting>>
           ELSE /\ sessions' = [opened EXCEPT ![k].context = "running",
                                              ![k].processor = "connected"]
                /\ audioContextRef' = k
                /\ processorRef' = k
                /\ isConnecting' = FALSE
                /\ isRecording' = TRUE
        /\ ev' = DidIn("onopen", k)
        /\ UNCHANGED <<outsideSession, accVars, micVars, wsRef, mediaStreamRef,
                       error, mounted, stopped>>

\* ws.onopen, lines 133-156: audioContext.resume() has resolved
ResumeResolves(k) ==
    /\ sessions[k].context = "suspended"
    /\ sessions' = [sessions EXCEPT ![k].context = "running",
                                    ![k].processor = "connected"]
    /\ audioContextRef' = k
    /\ processorRef' = k
    /\ isConnecting' = FALSE
    /\ isRecording' = TRUE
    /\ ev' = DidIn("onopen:resumed", k)
    /\ UNCHANGED <<outsideSession, accVars, micVars, wsRef, mediaStreamRef,
                   connectionTimeoutRef, error, mounted, stopped>>

\* (an onaudioprocess without the test of line 140)
AudioSendable_Always(readyState) == TRUE

\* processor.onaudioprocess, line 140
AudioSendable(readyState) == readyState = "OPEN"

\* ws.send(pcmData.buffer): `sent` keeps one "audio" for a run of audio frames
SendAudio(sent) ==
    IF sent # <<>> /\ sent[Len(sent)] = "audio" THEN sent ELSE Append(sent, "audio")

\* processor.onaudioprocess of session k: lines 139-150
OnAudioProcess(k) ==
    /\ sessions[k].processor = "connected"
    /\ sessions[k].context = "running"
    /\ IF AudioSendable(sessions[k].readyState)
       THEN /\ sessions' = [sessions EXCEPT ![k].sent = SendAudio(@)]
            /\ ev' = DidIn("onaudioprocess", k)
       ELSE /\ ev' = DidIn("onaudioprocess:not open", k)
            /\ UNCHANGED sessions
    /\ UNCHANGED <<outsideSession, accVars, micVars, isRecording, isConnecting,
                   refVars, error, mounted, stopped>>

\* What the server may send.  `kind`: the frame is not JSON, is the JSON
\* null, or is a JSON object; `text`: the text field is missing, a string
\* (`textVal`) or a number; `speaker_id`: -1 when missing.
Frame(kind, type, text, textVal, speaker_id, message) ==
    [kind |-> kind, type |-> type, text |-> text, textVal |-> textVal,
     speaker_id |-> speaker_id, message |-> message]
NotJson == Frame("not JSON", NULL, "missing", <<>>, -1, NULL)
JsonNull == Frame("null", NULL, "missing", <<>>, -1, NULL)
TranscriptFrame(text, textVal, speaker_id) ==
    Frame("object", "transcript", text, textVal, speaker_id, NULL)
ErrorFrame(message) == Frame("object", "error", "missing", <<>>, -1, message)
ServerFrames ==
    {NotJson, JsonNull, ErrorFrame(NULL), ErrorFrame("quota exceeded"),
     Frame("object", "pong", "missing", <<>>, -1, NULL),
     TranscriptFrame("missing", <<>>, 0), TranscriptFrame("number", <<>>, 0),
     TranscriptFrame("string", <<>>, 0), TranscriptFrame("string", Blank, 1),
     TranscriptFrame("string", Hello, -1), TranscriptFrame("string", Hello, 1)}

\* (an onmessage whose catch block shows the failure to the user)
FrameOutcome_ShowsParseFailure(data) ==
    IF data.kind # "object" THEN "error"
    ELSE IF data.type = "transcript" /\ data.text = "string" /\ Trim(data.textVal) # <<>>
    THEN "append"
    ELSE IF data.type = "error" THEN "error"
    ELSE "dropped"

\* ws.onmessage, lines 160-187: what the handler does with a frame.
\* JSON.parse throws on a frame that is not JSON, `data.type` throws on null
\* and `data.text.trim()` throws on a number: the catch block logs.
FrameOutcome(data) ==
    IF data.kind # "object" THEN "dropped"
    ELSE IF /\ data.type = "transcript"
            /\ \/ data.text = "string" /\ data.textVal # <<>>
               \/ data.text = "number"
    THEN IF data.text = "number" THEN "dropped"
         ELSE IF Trim(data.textVal) # <<>> THEN "append"
         ELSE "dropped"
    ELSE IF data.type = "error" THEN "error"
    ELSE "dropped"

\* data.speaker_id ?? 0
SpeakerOf(data) == IF data.speaker_id = -1 THEN 0 ELSE data.speaker_id

\* data.message || 'Transcription error'
FrameError(data) == IF data.message # NULL THEN data.message ELSE "Transcription error"

\* ws.onmessage of session k: lines 159-188.  A socket delivers frames while
\* it is open and, after close(), until the closing handshake ends.
OnMessage(k, data) ==
    LET out == FrameOutcome(data)
        newText == Trim(data.textVal)
    IN  /\ sessions[k].readyState \in {"OPEN", "CLOSING"}
        /\ FragmentCount(fullTranscriptRef) < MaxFrags
        /\ IF out = "append"
           THEN /\ fullTranscriptRef' =
                      AppendToLog(fullTranscriptRef, LabeledText(SpeakerOf(data), newText))
                /\ speakerTranscripts' =
                      AppendToSpeaker(speakerTranscripts, SpeakerOf(data), newText)
           ELSE UNCHANGED <<fullTranscriptRef, speakerTranscripts>>
        /\ error' = IF out = "error" THEN FrameError(data) ELSE error
        /\ ev' = [Did("onmessage") EXCEPT !.msg = {[session |-> k, data |-> data]}]
        /\ UNCHANGED <<outsideSession, micVars, lastDeltaIndexRef, deltasJoined, isRecording,
                       isConnecting, sessions, refVars, mounted, stopped>>

\* the connection of session k fails: the socket becomes CLOSED, then
\* ws.onerror (lines 190-194) and ws.onclose (lines 196-200) run
OnError(k) ==
    /\ sessions[k].readyState \in {"CONNECTING", "OPEN", "CLOSING"}
    /\ error' = ConnectionError
    /\ Cleanup([sessions EXCEPT ![k].readyState = "CLOSED"])
    /\ ev' = DidIn("onerror", k)
    /\ UNCHANGED <<outsideSession, accVars, micVars, mounted, stopped>>

\* the connection of session k ends (the server closes it, or the closing
\* handshake is over): ws.onclose, lines 196-200
OnClose(k) ==
    /\ sessions[k].readyState \in {"OPEN", "CLOSING"}
    /\ sessions' = [sessions EXCEPT ![k].readyState = "CLOSED"]
    /\ isRecording' = FALSE
    /\ isConnecting' = FALSE
    /\ ev' = DidIn("onclose", k)
    /\ UNCHANGED <<outsideSession, accVars, micVars, refVars, error, mounted, stopped>>

\* the component is unmounted: the effect of lines 80-82 calls cleanup
Unmount ==
    /\ mounted
    /\ mounted' = FALSE
    /\ Cleanup(sessions)
    /\ ev' = Did("unmount")
    /\ UNCHANGED <<outsideSession, accVars, micVars, error, stopped>>

----------------------------------------------------------------------------
\* StreetView: the restaurants shown.  Of a RestaurantResult the model keeps
\* the name and what the filter of onRestaurantsFound looks at.

\* selectedRestaurant: null
NoRestaurant == [name |-> NULL, geolocation |-> "null"]

\* restaurant records as an endpoint may return them: `geolocation` is
\* "numbers" (latitude and longitude are numbers), "null" (no geolocation)
\* or "strings" (a geolocation whose latitude is not a number)
Restaurant(name, geolocation) == [name |-> name, geolocation |-> geolocation]
ReturnedRestaurants ==
    {Restaurant("Chez A", "numbers"), Restaurant("Chez B", "numbers"),
     Restaurant("Chez C", "null"), Restaurant("Chez D", "strings")}

\* the lists POST /api/exa/research/sync may return
ResultLists == UNION {[1..n -> ReturnedRestaurants] : n \in 0..MaxResults}

\* onRestaurantsFound, lines 713-717: the filter predicate
ValidGeolocation(r) == r.geolocation = "numbers"

\* (a callback that adds the new results to those shown)
Shown_Merges(old, results) == old \o SelectSeq(results, ValidGeolocation)

\* onRestaurantsFound, lines 713-718: the list given to setRestaurants
Shown(old, results) == SelectSeq(results, ValidGeolocation)

\* onRestaurantsFound: StreetView, lines 711-726
onRestaurantsFound(results) ==
    LET validResults == Shown(restaurants, results)
    IN  /\ restaurants' = validResults
        /\ resultCount' = Len(validResults)
        /\ selectedRestaurant' =
              IF Len(validResults) > 0 THEN validResults[1] ELSE NoRestaurant

\* The search request `s` is answered with the list `results`: the rest of
\* triggerExaSearch, then onExaResults (SearchBar, lines 75-81) and
\* onRestaurantsFound.  (`before` in the event: the list shown when the
\* answer came.)
SearchReturns(s, results) ==
    LET resp == Found(Len(results) > 0)
    IN  /\ triggerExaSearchReturns(s, resp)
        /\ IF CallsOnExaResults(resp)
           THEN onRestaurantsFound(results) /\ shownFor' = s.prompt
           ELSE UNCHANGED mapVars
        /\ ev' = [Event("searchResponse", {s}, resp, SearchError(resp), <<>>,
                        CallsOnExaResults(resp), {}, FALSE)
                  EXCEPT !.msg = {[results |-> results, before |-> restaurants]}]
        /\ UNCHANGED <<bookVars, parseVars, sessVars, streamVars, scribeVars, viewVars,
                       liveVars>>

----------------------------------------------------------------------------
\* streamRestaurants (lib/api.ts): one call, its fetch and its read loop

\* the texts of the event stream
NL == "\n"
BlankLine == <<NL, NL>>
EventPrefix == <<"e","v","e","n","t",":"," ">>
DataPrefix == <<"d","a","t","a",":"," ">>
MessageType == <<"m","e","s","s","a","g","e">>
DoneType == <<"d","o","n","e">>
ErrorType == <<"e","r","r","o","r">>

\* the restaurants of a stream, and the JSON text of each
ChezA == Restaurant("Chez A", "numbers")
ChezC == Restaurant("Chez C", "null")
JsonChezA == <<"{","A","}">>
JsonChezC == <<"{","C","}">>
\* the JSON text of {"message": "m"}, of the count 7, and a cut JSON text
JsonMessage == <<"{","m","}">>
JsonSeven == <<"7">>
JsonCut == <<"{","A">>

\* JSON.parse on the texts above: a SyntaxError for any other text
JsonParse(text) ==
    IF text = JsonChezA THEN [kind |-> "restaurant", restaurant |-> ChezA, message |-> <<>>]
    ELSE IF text = JsonChezC THEN [kind |-> "restaurant", restaurant |-> ChezC, message |-> <<>>]
    ELSE IF text = JsonMessage
         THEN [kind |-> "object", restaurant |-> NoRestaurant, message |-> <<"m">>]
    ELSE IF text = JsonSeven
         THEN [kind |-> "number", restaurant |-> NoRestaurant, message |-> <<>>]
    ELSE [kind |-> "SyntaxError", restaurant |-> NoRestaurant, message |-> <<>>]

\* parseInt(text, 10): the number the leading digits spell, NaN without one
NaN == -1
Digits == <<"0","1","2","3","4","5","6","7","8","9">>
DigitValue(c) == (CHOOSE d \in 1..10 : Digits[d] = c) - 1
IsDigit(c) == \E d \in 1..10 : Digits[d] = c
ParseInt(text) ==
    LET t == Trim(text)
        lead == {k \in 0..Len(t) : \A i \in 1..k : IsDigit(t[i])}
        n == CHOOSE k \in lead : \A j \in lead : j <= k
        val[i \in 0..n] == IF i = 0 THEN 0 ELSE 10 * val[i - 1] + DigitValue(t[i])
    IN  IF n = 0 THEN NaN ELSE val[n]

\* String.prototype.startsWith
StartsWith(s, p) == Len(p) <= Len(s) /\ SubSeq(s, 1, Len(p)) = p

\* String.prototype.split for a separator that is not empty
RECURSIVE Split(_, _)
Split(s, sep) ==
    LET n == Len(sep)
        at == {i \in 1..Len(s) - n + 1 : \A j \in 1..n : s[i + j - 1] = sep[j]}
        i0 == CHOOSE i \in at : \A j \in at : i <= j
    IN  IF at = {} THEN <<s>>
        ELSE <<SubSeq(s, 1, i0 - 1)>> \o Split(SubSeq(s, i0 + n, Len(s)), sep)

\* lines 62-72: the type and the data of an event block
ParseBlock(eventBlock) ==
    LET lines == Split(eventBlock, <<NL>>)
        acc[i \in 0..Len(lines)] ==
            IF i = 0 THEN [eventType |-> MessageType, eventData |-> <<>>]
            ELSE LET line == lines[i]
                 IN  IF StartsWith(line, EventPrefix)
                     THEN [acc[i - 1] EXCEPT !.eventType = Trim(SubSeq(line, 8, Len(line)))]
                     ELSE IF StartsWith(line, DataPrefix)
                     THEN [acc[i - 1] EXCEPT !.eventData = SubSeq(line, 7, Len(line))]
                     ELSE acc[i - 1]
    IN  acc[Len(lines)]

\* lines 89-97: is onRestaurant reached.  The log of lines 91-92 reads
\* restaurant.geolocation.latitude.toFixed inside the try block, and throws
\* a TypeError into the catch unless the latitude and the longitude are numbers.
DeliversRestaurant(eventData) ==
    LET parsed == JsonParse(eventData)
    IN  parsed.kind = "restaurant" /\ parsed.restaurant.geolocation = "numbers"

\* lines 82-87: the message given to onError for an error event
ErrorEventMessage(eventData) ==
    LET parsed == JsonParse(eventData)
    IN  IF parsed.kind = "object" /\ parsed.message # <<>> THEN parsed.message
        ELSE eventData

\* a call of one of the three callbacks (`afterAbort`: the controller's
\* signal was aborted when the call was made)
NoCount == -2
Call(fn, restaurant, count, message, afterAbort) ==
    [fn |-> fn, restaurant |-> restaurant, count |-> count, message |-> message,
     afterAbort |-> afterAbort]
OnRestaurantCall(r, a) == Call("onRestaurant", r, NoCount, <<>>, a)
OnDoneCall(n, a) == Call("onDone", NoRestaurant, n, <<>>, a)
OnErrorCall(m, a) == Call("onError", NoRestaurant, NoCount, m, a)

\* what the callbacks do with the controller: never abort, or abort inside
\* the named callback
Aborters == {"none", "onRestaurant"}

\* lines 59-99 for one event block.  `st` holds the calls made, receivedCount,
\* doneReceived and the signal's aborted flag; `aborter` is the callback that
\* calls controller.abort().
MakeCall(st, c, aborter) ==
    [st EXCEPT !.calls = Append(@, [c EXCEPT !.afterAbort = st.aborted]),
               !.aborted = @ \/ aborter = c.fn]
HandleBlock(st, eventBlock, aborter) ==
    LET p == ParseBlock(eventBlock)
    IN  IF Trim(eventBlock) = <<>> \/ p.eventData = <<>> THEN st
        ELSE IF p.eventType = DoneType
        THEN [MakeCall(st, OnDoneCall(ParseInt(p.eventData), FALSE), aborter)
                EXCEPT !.doneReceived = TRUE]
        ELSE IF p.eventType = ErrorType
        THEN MakeCall(st, OnErrorCall(ErrorEventMessage(p.eventData), FALSE), aborter)
        ELSE IF DeliversRestaurant(p.eventData)
        THEN [MakeCall(st, OnRestaurantCall(JsonParse(p.eventData).restaurant, FALSE),
                       aborter)
                EXCEPT !.receivedCount = @ + 1]
        ELSE st

\* lines 56-57: the complete event blocks among `events`, the buffer split
\* on the blank lines, and what is kept
CompleteEvents(events) == SubSeq(events, 1, Len(events) - 1)
\* (the text after the last blank line is thrown away)
Leftover_Dropped(events) == <<>>
Leftover(events) == events[Len(events)]

\* lines 59-99: the event blocks of one chunk
HandleEvents(st, events, aborter) ==
    LET acc[i \in 0..Len(events)] ==
            IF i = 0 THEN st ELSE HandleBlock(acc[i - 1], events[i], aborter)
    IN  acc[Len(events)]

\* the catch block, lines 107-114: is the error given to onError
AbortError == [name |-> "AbortError", message |-> <<"a","b","o","r","t","e","d">>]
FetchFailure == [name |-> "TypeError", message |-> <<"F","a","i","l","e","d">>]
ApiError == [name |-> "Error", message |-> <<"A","P","I"," ","e","r","r","o","r">>]
NoBodyError == [name |-> "Error", message |-> <<"N","o"," ","b","o","d","y">>]
Reports(err) == err.name # "AbortError"
Caught(cs, err, a) == IF Reports(err) THEN Append(cs, OnErrorCall(err.message, a)) ELSE cs

\* what the server sends: event blocks, each ended by a blank line; the last
\* one may be cut short when the connection ends ("unended")
DataEvent(payload) == DataPrefix \o payload \o BlankLine
NamedEvent(type, payload) ==
    EventPrefix \o type \o <<NL>> \o DataPrefix \o payload \o BlankLine
EventKinds == {"A", "C", "cut", "done", "error"}
EventText(kind) ==
    CASE kind = "A" -> DataEvent(JsonChezA)
      [] kind = "C" -> DataEvent(JsonChezC)
      [] kind = "cut" -> DataEvent(JsonCut)
      [] kind = "done" -> NamedEvent(DoneType, JsonSeven)
      [] kind = "error" -> NamedEvent(ErrorType, JsonMessage)
      [] kind = "unended" -> DataPrefix \o JsonChezA \o <<NL>>
\* the server sends at most one done event
EventLists ==
    {es \in UNION {[1..n -> EventKinds \cup {"unended"}] : n \in 0..MaxEvents} :
        /\ Cardinality({i \in DOMAIN es : es[i] = "done"}) <= 1
        /\ \A i \in 1..Len(es) - 1 : es[i] # "unended"}
RECURSIVE Concat(_)
Concat(texts) == IF texts = <<>> THEN <<>> ELSE texts[1] \o Concat(Tail(texts))
BodyText(es) == Concat([i \in DOMAIN es |-> EventText(es[i])])

streamOutside == <<voiceVars, bookVars, parseVars, sessVars, mapVars, scribeVars, viewVars,
                   liveVars>>

\* streamRestaurants, lines 10-30 and 117: the fetch leaves, the controller
\* is returned
StartStream ==
    /\ streamPc = "none"
    /\ streamPc' = "fetching"
    /\ ev' = Did("streamRestaurants")
    /\ UNCHANGED <<wire, served, buffer, receivedCount, doneReceived, aborted, calls,
                   splitSeen, streamOutside>>

\* the response arrives, lines 32-44: `status` is "ok", "not ok" (a status
\* outside 200-299) or "no body"
FetchResolves(status, es) ==
    /\ streamPc = "fetching"
    /\ IF status = "ok"
       THEN /\ streamPc' = "reading"
            /\ wire' = BodyText(es)
            /\ served' = es
            /\ UNCHANGED calls
       ELSE /\ streamPc' = "failed"
            /\ calls' = Caught(calls, IF status = "not ok" THEN ApiError ELSE NoBodyError,
                               aborted)
            /\ UNCHANGED <<wire, served>>
    /\ ev' = Did("stream:response")
    /\ UNCHANGED <<buffer, receivedCount, doneReceived, aborted, splitSeen, streamOutside>>

\* fetch or reader.read() rejects because the connection failed
StreamFails ==
    /\ streamPc \in {"fetching", "reading"}
    /\ streamPc' = "failed"
    /\ calls' = Caught(calls, FetchFailure, aborted)
    /\ ev' = Did("stream:failure")
    /\ UNCHANGED <<wire, served, buffer, receivedCount, doneReceived, aborted, splitSeen,
                   streamOutside>>

\* controller.abort() outside the callbacks: a pending fetch or read rejects
\* with an AbortError, which the catch block receives
Abort ==
    /\ ~aborted
    /\ streamPc # "none"
    /\ aborted' = TRUE
    /\ IF streamPc \in {"fetching", "reading"}
       THEN /\ streamPc' = "aborted"
            /\ calls' = Caught(calls, AbortError, TRUE)
       ELSE UNCHANGED <<streamPc, calls>>
    /\ ev' = Did("stream:abort")
    /\ UNCHANGED <<wire, served, buffer, receivedCount, doneReceived, splitSeen,
                   streamOutside>>

\* reader.read() resolves with the next `k` characters, lines 47-57 and 59-99, up to
\* the next read: it rejects with an AbortError when a callback has aborted
ReadResolves(k, aborter) ==
    /\ streamPc = "reading"
    /\ k \in 1..Len(wire)
    /\ \E events \in {Split(buffer \o SubSeq(wire, 1, k), BlankLine)} :
       \E st \in {HandleEvents([calls |-> calls, receivedCount |-> receivedCount,
                               doneReceived |-> doneReceived, aborted |-> aborted],
                              CompleteEvents(events), aborter)} :
           /\ wire' = SubSeq(wire, k + 1, Len(wire))
           /\ buffer' = Leftover(events)
           /\ splitSeen' = (splitSeen \/ (Leftover(events) # <<>> /\ k < Len(wire)))
           /\ receivedCount' = st.receivedCount
           /\ doneReceived' = st.doneReceived
           /\ aborted' = st.aborted
           /\ calls' = IF st.aborted THEN Caught(st.calls, AbortError, TRUE) ELSE st.calls
           /\ streamPc' = IF st.aborted THEN "aborted" ELSE "reading"
    /\ ev' = Did("stream:chunk")
    /\ UNCHANGED <<served, streamOutside>>

\* reader.read() resolves with done, lines 48-51 and 102-106
ReadDone ==
    /\ streamPc = "reading"
    /\ wire = <<>>
    /\ streamPc' = "done"
    /\ calls' = IF ~doneReceived THEN Append(calls, OnDoneCall(receivedCount, aborted))
                ELSE calls
    /\ ev' = Did("stream:end")
    /\ UNCHANGED <<wire, served, buffer, receivedCount, doneReceived, aborted, splitSeen,
                   streamOutside>>

----------------------------------------------------------------------------
\* useLiveScribe (lib/useLiveScribe.ts): the transcript list

\* a JSON frame of the transcription socket as onmessage reads it, each
\* field by its JSON text; a field the frame does not carry is Missing
Missing == "undefined"
ScribeFrame(type, text, speaker_id, is_final, message) ==
    [type |-> type, text |-> text, speaker_id |-> speaker_id, is_final |-> is_final,
     message |-> message]
ScribeFrames ==
    {ScribeFrame("transcript", <<"a">>, s, f, Missing) :
        s \in {"0", "1"}, f \in {"true", "false"}}
    \cup {ScribeFrame("transcript", <<"a">>, Missing, Missing, Missing),
          ScribeFrame("error", <<>>, Missing, Missing, "boom"),
          ScribeFrame("not JSON", <<>>, Missing, Missing, Missing)}

\* lines 147-153: the segment made of a transcript frame (`id` stands for
\* crypto.randomUUID(): the number of the frame)
Segment(data, id) ==
    [id |-> id,
     text |-> data.text,
     speaker_id |-> IF data.speaker_id = "1" THEN 1 ELSE 0,
     is_final |-> data.is_final = "true"]

\* lines 157-159: prev.findIndex(...), 0 when there is none
OpenIndex(prev, segment) ==
    LET open == {i \in 1..Len(prev) :
                    ~prev[i].is_final /\ prev[i].speaker_id = segment.speaker_id}
    IN  IF open = {} THEN 0 ELSE CHOOSE i \in open : \A j \in open : i <= j

\* (an updater that appends every segment)
Updated_Appends(prev, segment) == Append(prev, segment)
\* lines 155-168: the updater given to setTranscript
Updated(prev, segment) ==
    IF ~segment.is_final /\ OpenIndex(prev, segment) > 0
    THEN [prev EXCEPT ![OpenIndex(prev, segment)] = segment]
    ELSE Append(prev, segment)

scribeOutside == <<voiceVars, bookVars, parseVars, sessVars, mapVars, streamVars, viewVars,
                   liveVars>>

\* ws.onmessage, lines 143-177
ScribeMessage(data) ==
    /\ scribeReceived < MaxSegments
    /\ scribeReceived' = scribeReceived + 1
    /\ IF data.type = "transcript"
       THEN /\ transcript' = Updated(transcript, Segment(data, scribeReceived + 1))
            /\ UNCHANGED scribeError
       ELSE IF data.type = "error"
       THEN /\ scribeError' = data.message
            /\ UNCHANGED transcript
       ELSE UNCHANGED <<transcript, scribeError>>
    /\ ev' = [Did("scribe:onmessage") EXCEPT !.msg = {[data |-> data, before |-> transcript]}]
    /\ UNCHANGED scribeOutside

\* clearTranscript
ClearTranscript ==
    /\ transcript' = <<>>
    /\ ev' = Did("scribe:clearTranscript")
    /\ UNCHANGED <<scribeError, scribeReceived, scribeOutside>>

----------------------------------------------------------------------------

Speakers == {0}
Fragments == {Hello}

InitVoice ==
    /\ isLoopActive = FALSE /\ isProcessing = FALSE /\ cycleCount = 0
    /\ requirements = <<>> /\ lastError = NULL
    /\ isLoopActiveRef = FALSE /\ loopTimeoutRef = "null" /\ initialDelayPassedRef = FALSE
    /\ timers = EmptyBag /\ extractInFlight = EmptyBag /\ searchInFlight = EmptyBag
    /\ cyclesStarted = 0
    /\ isRecording = FALSE /\ isConnecting = FALSE /\ ws = "none"
    /\ speakerTranscripts = <<>> /\ fullTranscriptRef = <<>> /\ lastDeltaIndexRef = 0
    /\ deltasJoined = <<>>
    /\ micPc = "idle" /\ micClosure = <<>> /\ autoStartAttempts = 0
    /\ ev = Did("init")

InitBooking ==
    /\ bookingInProgress = NULL /\ bookingStatus = NoStatus
    /\ bookingInFlight = EmptyBag /\ bookingTimers = 0 /\ bookingsAccepted = 0

InitSession ==
    /\ sessions = <<>>
    /\ wsRef = 0 /\ mediaStreamRef = 0 /\ audioContextRef = 0
    /\ processorRef = 0 /\ connectionTimeoutRef = 0
    /\ error = NULL /\ mounted = TRUE /\ stopped = FALSE

InitMap ==
    /\ restaurants = <<>> /\ resultCount = NULL /\ selectedRestaurant = NoRestaurant
    /\ shownFor = <<>>

\* routeDistance: null
NoDistance == [to |-> NULL, by |-> NULL]

InitView ==
    /\ isLoading = FALSE /\ viewError = NULL
    /\ dishes = <<>> /\ dishesLoading = FALSE
    /\ routeCoordinates = <<>> /\ routeDistance = NoDistance
    /\ manualInFlight = EmptyBag /\ dishFetches = EmptyBag /\ routeFetches = EmptyBag

InitLive ==
    /\ position = NULL /\ loading = TRUE /\ geoError = NULL
    /\ liveRestaurants = <<>> /\ searching = FALSE /\ searchError = NULL
    /\ hasSearchedRef = FALSE /\ liveInFlight = EmptyBag

InitStream ==
    /\ streamPc = "none" /\ wire = <<>> /\ served = <<>> /\ buffer = <<>>
    /\ receivedCount = 0 /\ doneReceived = FALSE /\ aborted = FALSE
    /\ calls = <<>> /\ splitSeen = FALSE

InitScribe ==
    /\ transcript = <<>> /\ scribeError = NULL /\ scribeReceived = 0

Init ==
    /\ InitVoice
    /\ InitBooking
    /\ InitSession
    /\ InitMap
    /\ InitView
    /\ InitLive
    /\ InitStream
    /\ InitScribe
    /\ rawReq = <<>> /\ parsedReq = NotParsed

\* The session: the answers of the endpoints are few
Next ==
    \/ \E t \in BagToSet(timers) : TimerFires(t)
    \/ \E c \in BagToSet(extractInFlight) :
         \E resp \in {Extracted(<<Italian>>), Extracted(<<>>), Rejected("API error: 500 Internal Server Error")} :
           ExtractResponds(c, resp, TRUE)
    \/ \E s \in BagToSet(searchInFlight) : \E resp \in {Found(TRUE), Rejected("API error: 500 Internal Server Error")} :
           SearchResponds(s, resp)
    \/ WsOpens
    \/ \E speakerId \in Speakers : \E text \in Fragments : OnTranscript(speakerId, text)
    \/ EffectStartLoop
    \/ MicClick
    \/ MicSearchReturns
    \/ MicTimerFires
    \/ MicStartLoop

Spec == Init /\ [][Next]_vars

\* A session in which the mic button is not clicked: recording is started by
\* the auto-start effect and the loop by the start-loop effect; the endpoints
\* may answer anything
NextCycle ==
    \/ \E t \in BagToSet(timers) : TimerFires(t)
    \/ \E c \in BagToSet(extractInFlight) : \E resp \in ExtractResponses :
         \E eager \in BOOLEAN : ExtractResponds(c, resp, eager)
    \/ \E s \in BagToSet(searchInFlight) : \E resp \in SearchResponses :
           SearchResponds(s, resp)
    \/ WsOpens
    \/ \E speakerId \in Speakers : \E text \in Fragments : OnTranscript(speakerId, text)
    \/ AutoStartFires
    \/ EffectStartLoop

SpecCycle == Init /\ [][NextCycle]_vars

\* useVoiceRecorder on its own: transcript messages of two speakers, some
\* blank, some with blanks around the text, and the functions the hook
\* returns called in any order
AccSpeakers == {0, 1}
AccFragments == {Hello, Blank, <<" ", "o", "k", " ">>}

NextAcc ==
    \/ StartRecording
    \/ WsOpens
    \/ \E speakerId \in AccSpeakers : \E text \in AccFragments :
         OnTranscript(speakerId, text)
    \/ getDeltaTranscript
    \/ getFullTranscript
    \/ ClearTranscripts
    \/ stopRecording

SpecAcc == Init /\ [][NextAcc]_vars

\* The two parsers applied to any raw requirement string
InitParse ==
    /\ InitVoice
    /\ InitBooking
    /\ InitSession
    /\ InitMap
    /\ InitView
    /\ InitLive
    /\ InitStream
    /\ InitScribe
    /\ rawReq \in RawReqs /\ parsedReq = NotParsed

NextParse ==
    \/ LoopParses
    \/ StoreParses

SpecParse == InitParse /\ [][NextParse]_vars

\* StreetView: the Make Booking buttons
NextBooking ==
    \/ \E restaurantName \in Restaurants : BookingClick(restaurantName)
    \/ \E c \in BagToSet(bookingInFlight) : \E resp \in BookingResponses :
         BookingResponds(c, resp)
    \/ BookingTimerFires

SpecBooking == Init /\ [][NextBooking]_vars

\* The results of the voice loop on the map: a session started by the
\* auto-start effect, an extraction endpoint that finds a requirement or
\* nothing, and a search endpoint that returns any list or fails
NextResults ==
    \/ \E t \in BagToSet(timers) : TimerFires(t)
    \/ \E c \in BagToSet(extractInFlight) :
         \E resp \in {Extracted(<<Italian>>), Extracted(<<>>)} :
           ExtractResponds(c, resp, TRUE)
    \/ \E s \in BagToSet(searchInFlight) : \E results \in ResultLists :
           SearchReturns(s, results)
    \/ \E s \in BagToSet(searchInFlight) : \E e \in Thrown :
           SearchResponds(s, Rejected(e))
    \/ WsOpens
    \/ \E speakerId \in Speakers : \E text \in Fragments : OnTranscript(speakerId, text)
    \/ AutoStartFires
    \/ EffectStartLoop

SpecResults == Init /\ [][NextResults]_vars

\* useVoiceRecorder under the SearchBar: the mic button, the auto-start
\* effect, the microphone and the sockets (the frames of the server come in
\* the next specification)
NextSession ==
    \/ MicStart
    \/ MicStop
    \/ MicRestart
    \/ AutoStart
    \/ Unmount
    \/ \E k \in 1..Len(sessions) : GetUserMediaResolves(k)
    \/ \E k \in 1..Len(sessions) : \E err \in GumErrors : GetUserMediaRejects(k, err)
    \/ \E k \in 1..Len(sessions) : ConnectionTimeout(k)
    \/ \E k \in 1..Len(sessions) : \E suspended \in BOOLEAN : OnOpen(k, suspended)
    \/ \E k \in 1..Len(sessions) : ResumeResolves(k)
    \/ \E k \in 1..Len(sessions) : OnAudioProcess(k)
    \/ \E k \in 1..Len(sessions) : OnError(k)
    \/ \E k \in 1..Len(sessions) : OnClose(k)

SpecSession == Init /\ [][NextSession]_vars

\* The frames of the server: sessions started and stopped by the mic button,
\* whose microphone and socket do not fail, and a server that sends anything
NextFrames ==
    \/ MicStart
    \/ MicStop
    \/ MicRestart
    \/ \E k \in 1..Len(sessions) : GetUserMediaResolves(k)
    \/ \E k \in 1..Len(sessions) : OnOpen(k, FALSE)
    \/ \E k \in 1..Len(sessions) : \E data \in ServerFrames : OnMessage(k, data)
    \/ \E k \in 1..Len(sessions) : OnClose(k)

SpecFrames == Init /\ [][NextFrames]_vars

----------------------------------------------------------------------------
\* Properties

IsPrefix(a, b) == Len(a) <= Len(b) /\ SubSeq(b, 1, Len(a)) = a

\* the answer carries at least one requirement
ReturnedNew(resp) == resp.kind = "ok" /\ resp.success /\ resp.requirements # <<>>

\* the last step was the answer to an extraction request / to a search request
Answered == ev.op = "extractResponse"
SearchAnswered == ev.op = "searchResponse"

\* the timer whose handle loopTimeoutRef holds is pending
TrackedPending(pending) == \E t \in BagToSet(pending) : t.tracked

\* C1: at most one extraction cycle is in flight at any time: no cycle reads
\* a delta or sends an extraction request while the extraction request of
\* another cycle awaits its answer.
C1_OneCycleInFlight == BagCardinality(extractInFlight) <= 1

\* C2: the timer of the next cycle is never set while the search request
\* sent by the current cycle is in flight: in the state reached by the step
\* that ends a cycle and sets the timer, no search of that cycle is pending.
C2_TimerAfterSearch ==
    (Answered /\ ev.scheduled /\ TrackedPending(timers))
        => \A r \in ev.search : ~BagIn(r, searchInFlight)

\* C3: a cycle whose extraction call returned no new requirement (an empty
\* array, success = false, or a failure) sends no search request, whatever
\* the master list holds.
C3_NoSearchWithoutNew ==
    [][(Answered' /\ ~ReturnedNew(ev'.resp)) =>
            /\ searchInFlight' = searchInFlight
            /\ requirements' = requirements]_vars

\* C3 witness: the list was not empty, the answer was an empty array, and no
\* search was sent
C3_Witness ==
    /\ Answered /\ ev.resp = Extracted(<<>>)
    /\ requirements # <<>>
    /\ ev.search = {} /\ searchInFlight = EmptyBag

\* C4: a cycle in which getDeltaTranscript returns the empty string makes no
\* request to either endpoint and leaves the master list as it is.
C4_NoDeltaNoRequest ==
    [][(cycleCount' = cycleCount + 1
            /\ ReadDelta(fullTranscriptRef, lastDeltaIndexRef) = <<>>)
        => UNCHANGED <<extractInFlight, searchInFlight, requirements>>]_vars

\* C4 witness: a cycle has just run without a delta, after the list had
\* received a requirement
C4_Witness ==
    /\ ev.op = "runCycle:skip" /\ cycleCount = 2
    /\ requirements # <<>>

\* C5 as stated: a cycle whose extraction call returns at least one new
\* requirement appends them to the master list and sends exactly one search
\* request, whose prompt is the texts of the updated list joined with ", ".
C5_Original ==
    [][(Answered' /\ ReturnedNew(ev'.resp)) =>
            /\ requirements' = requirements \o ParseAll(ev'.resp.requirements)
            /\ searchInFlight' =
                  Add(searchInFlight,
                      [prompt |-> Join(Texts(requirements'), <<",", " ">>)])]_vars

\* C5 amended: ... and sends exactly one search request with that prompt,
\* unless the prompt is blank (empty once trimmed), in which case it sends
\* none.
C5_AppendAndSearch ==
    [][(Answered' /\ ReturnedNew(ev'.resp)) =>
            LET prompt == Join(Texts(requirements'), <<",", " ">>)
            IN  /\ requirements' = requirements \o ParseAll(ev'.resp.requirements)
                /\ ev'.extracted = requirements'
                /\ searchInFlight' =
                      IF Trim(prompt) = <<>> THEN searchInFlight
                      ELSE Add(searchInFlight, [prompt |-> prompt])]_vars

ItalianGlutenFree ==
    <<"I","t","a","l","i","a","n",",",
      " ","g","l","u","t","e","n","-","f","r","e","e">>

\* C5 witness: the list ["Italian", "gluten-free"], reached in two cycles,
\* has produced the prompt "Italian, gluten-free"
C5_Witness ==
    /\ Answered /\ ev.resp = Extracted(<<GlutenFreeRaw>>)
    /\ Texts(requirements) = <<Italian, GlutenFree>>
    /\ ev.search = {[prompt |-> ItalianGlutenFree]}
    /\ BagIn([prompt |-> ItalianGlutenFree], searchInFlight)

\* C6: the existing-requirements list of an extraction request is the texts
\* of the master list at the moment the request is sent.
C6_ExistingIsMaster ==
    ev.op = "runCycle:extract" =>
        \A c \in ev.req : c.existing_requirements = Texts(requirements)

\* C7: after stopLoop, and until startLoop is called again, no timer of the
\* loop is pending, no cycle runs, no delta is read and no extraction request
\* is sent.
C7_NoCycleAfterStop ==
    [][/\ ~isLoopActiveRef' => (loopTimeoutRef' = "null" /\ timers' = EmptyBag)
       /\ (~isLoopActiveRef /\ ~isLoopActiveRef') =>
            /\ cycleCount' = cycleCount
            /\ lastDeltaIndexRef' <= lastDeltaIndexRef
            /\ extractInFlight' \sqsubseteq extractInFlight]_vars

\* C8: the answer to an extraction request that was in flight when stopLoop
\* was called is not acted upon: no requirement is appended, the
\* requirements callback is not called and no search request is sent.
C8_StaleAnswerIgnored ==
    [][(Answered' /\ \E c \in ev'.req : c.stopped) =>
            /\ requirements' = requirements
            /\ ev'.extracted = <<>>
            /\ searchInFlight' = searchInFlight]_vars

\* C9: a failure of the extraction call or of the search call is stored in
\* lastError and given to onError, and does not stop the loop: when the loop
\* is active the cycle whose extraction failed sets the timer of the next
\* cycle.
Message(e, fallback) == IF e = NotAnError THEN fallback ELSE e
C9_ErrorsReported ==
    [][/\ (Answered' /\ ev'.resp.kind = "thrown") =>
            /\ lastError' = Message(ev'.resp.error, "Failed to process with Grok")
            /\ ev'.onError = lastError'
            /\ isLoopActiveRef' = isLoopActiveRef
            /\ isLoopActiveRef =>
                  /\ loopTimeoutRef' = "set"
                  /\ \E t \in BagToSet(timers') : t.tracked /\ t.kind = "cycle"
       /\ (SearchAnswered' /\ ev'.resp.kind = "thrown") =>
            /\ lastError' = Message(ev'.resp.error, "Exa search failed")
            /\ ev'.onError = lastError'
            /\ UNCHANGED <<isLoopActiveRef, timers, loopTimeoutRef>>]_vars

\* C9 witness: the extraction call of a cycle of the active loop has failed,
\* the error is stored and the next cycle is scheduled
C9_Witness ==
    /\ Answered /\ ev.resp.kind = "thrown"
    /\ isLoopActiveRef /\ ev.scheduled /\ TrackedPending(timers)
    /\ lastError = "API error: 500 Internal Server Error" /\ ev.onError = "API error: 500 Internal Server Error"

\* C10: the master requirement list is append-only: every earlier value of
\* the list is a prefix of every later one, through cycles and through the
\* mic-click stop and restart.
C10_AppendOnly == [][IsPrefix(requirements, requirements')]_vars

----------------------------------------------------------------------------
\* Properties of the transcript accumulator

\* the last step was a call of getDeltaTranscript
DeltaRead == ev.op = "getDeltaTranscript"

\* C11: a getDeltaTranscript that follows a getDeltaTranscript at once (no
\* fragment appended in between) returns the empty string: in the state a
\* getDeltaTranscript leaves, the value a getDeltaTranscript returns is the
\* empty string.
C11_SecondReadEmpty ==
    DeltaRead => ReadDelta(fullTranscriptRef, lastDeltaIndexRef) = <<>>

\* C11 witness: the log holds a fragment already read, and a second read has
\* returned the empty string
C11_Witness ==
    /\ DeltaRead /\ ev.value = <<>>
    /\ fullTranscriptRef # <<>>
    /\ lastDeltaIndexRef = Len(fullTranscriptRef)

\* the last step was a call of getFullTranscript / of clearTranscripts, the
\* arrival of a transcript message, a call of stopRecording
FullRead == ev.op = "getFullTranscript"
Cleared == ev.op = "clearTranscripts"
Received == ev.op = "ws.onmessage"
Stopped == ev.op = "stopRecording"

\* C12: getFullTranscript returns the full log and changes neither the
\* cursor, nor the log, nor the per-speaker map: the next getDeltaTranscript
\* returns what it would have returned without it.
C12_ReadFullKeeps ==
    [][FullRead' =>
            /\ ev'.value = fullTranscriptRef
            /\ UNCHANGED <<lastDeltaIndexRef, fullTranscriptRef, speakerTranscripts>>
            /\ ReadDelta(fullTranscriptRef', lastDeltaIndexRef')
                  = ReadDelta(fullTranscriptRef, lastDeltaIndexRef)]_vars

\* C12 witness: the full log was returned while a part of it was read and a
\* part unread, and the cursor still stands between the two
C12_Witness ==
    /\ FullRead /\ ev.value = fullTranscriptRef
    /\ 0 < lastDeltaIndexRef /\ lastDeltaIndexRef < Len(fullTranscriptRef)

\* C13: right after clearTranscripts the per-speaker map is empty, the full
\* log is the empty string, the cursor is 0 and getDeltaTranscript would
\* return the empty string, whatever was appended or read before.
C13_ResetClearsAll ==
    [][Cleared' =>
            /\ speakerTranscripts' = <<>>
            /\ fullTranscriptRef' = <<>>
            /\ lastDeltaIndexRef' = 0
            /\ ReadDelta(fullTranscriptRef', lastDeltaIndexRef') = <<>>]_vars

\* C13 witness: a log of two fragments has been discarded
C13_Witness ==
    /\ Cleared /\ FragmentCount(ev.value) = 2
    /\ fullTranscriptRef = <<>> /\ lastDeltaIndexRef = 0 /\ speakerTranscripts = <<>>

\* C14: in every reachable state 0 <= cursor <= length of the full log.
C14_CursorInLog ==
    0 <= lastDeltaIndexRef /\ lastDeltaIndexRef <= Len(fullTranscriptRef)

\* C14 witness: a part of the log is read, a part is not
C14_Witness ==
    /\ 0 < lastDeltaIndexRef /\ lastDeltaIndexRef < Len(fullTranscriptRef)
    /\ Received

\* C15: every getDeltaTranscript leaves the cursor at the end of the log, a
\* transcript message and getFullTranscript do not move it, and no step but
\* clearTranscripts decreases it.
C15_CursorForward ==
    [][/\ DeltaRead' => lastDeltaIndexRef' = Len(fullTranscriptRef')
       /\ (Received' \/ FullRead') => lastDeltaIndexRef' = lastDeltaIndexRef
       /\ ~Cleared' => lastDeltaIndexRef' >= lastDeltaIndexRef]_vars

\* C15 witness: a second read has returned the second fragment only, and
\* the cursor is at the end of the log
C15_Witness ==
    /\ DeltaRead /\ FragmentCount(fullTranscriptRef) = 2
    /\ FragmentCount(ev.value) = 1
    /\ lastDeltaIndexRef = Len(fullTranscriptRef)

Label0 == <<"[","S","p","e","a","k","e","r"," ","0","]",":"," ">>
Label1 == <<"[","S","p","e","a","k","e","r"," ","1","]",":"," ">>
Label(speakerId) == IF speakerId = 0 THEN Label0 ELSE Label1
Ok == <<"o", "k">>

\* C16: the full log is append-only and in arrival order: a transcript
\* message whose text (trimmed) is not empty extends the log by a space (if
\* the log is not empty), the label of its speaker and the text; no step but
\* clearTranscripts changes what the log already holds; stopRecording leaves
\* the log as it is.
C16_LogAppendOnly ==
    [][/\ ~Cleared' => IsPrefix(fullTranscriptRef, fullTranscriptRef')
       /\ Stopped' => fullTranscriptRef' = fullTranscriptRef
       /\ Received' => \A m \in ev'.msg :
            fullTranscriptRef' =
                IF Trim(m.text) = <<>> THEN fullTranscriptRef
                ELSE fullTranscriptRef
                        \o (IF fullTranscriptRef = <<>> THEN <<>> ELSE <<" ">>)
                        \o Label(m.speakerId) \o Trim(m.text)]_vars

\* C16 witness: speaker 1 spoke before speaker 0, and the log holds the two
\* fragments in that order
C16_Witness ==
    /\ Received
    /\ fullTranscriptRef = Label1 \o Hello \o <<" ">> \o Label0 \o Ok

\* the speakers of the per-speaker map, and the text of one of them (the
\* empty string if it has none)
Keys(map) == {map[i].speaker : i \in 1..Len(map)}
ValueOf(map, k) ==
    LET idx == {i \in 1..Len(map) : map[i].speaker = k}
    IN  IF idx = {} THEN <<>> ELSE map[CHOOSE i \in idx : TRUE].text

\* C17: between two clearTranscripts the per-speaker map only grows: no
\* speaker is removed and no text is shortened; a transcript message whose
\* text (trimmed) is not empty makes the text of its speaker the previous
\* one, a space and the text (the text alone if the speaker had none), and
\* leaves the other speakers as they are.
C17_MapGrows ==
    [][/\ ~Cleared' =>
            /\ Keys(speakerTranscripts) \subseteq Keys(speakerTranscripts')
            /\ \A k \in Keys(speakerTranscripts) :
                  IsPrefix(ValueOf(speakerTranscripts, k), ValueOf(speakerTranscripts', k))
       /\ Received' => \A m \in ev'.msg :
            LET t == Trim(m.text)
                old == ValueOf(speakerTranscripts, m.speakerId)
            IN  IF t = <<>> THEN speakerTranscripts' = speakerTranscripts
                ELSE /\ ValueOf(speakerTranscripts', m.speakerId) =
                          (IF old = <<>> THEN t ELSE old \o <<" ">> \o t)
                     /\ Keys(speakerTranscripts') =
                          Keys(speakerTranscripts) \cup {m.speakerId}
                     /\ Len(speakerTranscripts') = Cardinality(Keys(speakerTranscripts'))
                     /\ \A k \in AccSpeakers \ {m.speakerId} :
                          ValueOf(speakerTranscripts', k) = ValueOf(speakerTranscripts, k)]_vars

\* C17 witness: speaker 1 has spoken twice, and the map holds the two texts
\* with a space between them
C17_Witness ==
    /\ Received
    /\ ValueOf(speakerTranscripts, 1) = Hello \o <<" ">> \o Ok

----------------------------------------------------------------------------
\* Properties of the parsers

NoBracket(str) == \A i \in 1..Len(str) : str[i] \notin {"[", "]"}

\* the string has the form <text>[<speaker>]: it ends with "]" and holds a
\* "[" with at least one character before it and one after it
HasSuffix(raw) ==
    /\ Len(raw) >= 4 /\ raw[Len(raw)] = "]"
    /\ \E k \in 2..Len(raw) - 2 : raw[k] = "["

\* the places of the "[" of a trailing suffix [<speaker>] whose speaker
\* holds no bracket (there is at most one)
CleanSuffix(raw) ==
    {k \in 2..Len(raw) - 2 :
        /\ raw[Len(raw)] = "]" /\ raw[k] = "["
        /\ NoBracket(SubSeq(raw, k + 1, Len(raw) - 1))}

\* C18: a raw requirement "<text> [<speaker>]" is parsed into the text
\* without the bracket suffix and the speaker inside the brackets (both
\* trimmed); a string without a trailing bracket suffix is kept whole as the
\* text, with no speaker in the voice loop and the speaker "Unknown" in the
\* requirements store.
C18_ParseBracketSuffix ==
    parsedReq.by # "none" =>
        /\ \A k \in CleanSuffix(rawReq) :
              /\ parsedReq.text = Trim(SubSeq(rawReq, 1, k - 1))
              /\ parsedReq.speaker = Trim(SubSeq(rawReq, k + 1, Len(rawReq) - 1))
        /\ ~HasSuffix(rawReq) =>
              /\ parsedReq.text = rawReq
              /\ parsedReq.speaker =
                    (IF parsedReq.by = "loop" THEN <<"undefined">> ELSE Unknown)

----------------------------------------------------------------------------
\* Properties of the booking

\* the last step was the answer to a booking call / an accepted click / the
\* firing of a 5 s timer
BookingAnswered == ev.op = "bookingResponse"
BookingAccepted == ev.op = "handleBooking"
StatusTimerFired == ev.op = "booking:statusTimer"

\* C19: a booking request made while one is pending is ignored: at most one
\* booking call is in flight, and while one is in flight a click (on the
\* same restaurant or on another) sends no call.
C19_OneBookingInFlight ==
    [][/\ BagCardinality(bookingInFlight') <= 1
       /\ (bookingInFlight # EmptyBag /\ ~BookingAnswered') =>
            bookingInFlight' = bookingInFlight]_vars

\* C19 witness: the button of the restaurant being booked was clicked again
\* before the answer, and there is one call in flight for one booking
\* accepted
C19_Witness ==
    /\ ev.op = "booking:disabled"
    /\ ev.msg = {[restaurantName |-> bookingInProgress]}
    /\ bookingsAccepted = 1 /\ bookingTimers = 0
    /\ BagCardinality(bookingInFlight) = 1

\* C20: an accepted booking request sends one call; the answer, success or
\* failure, sends no other call, clears the in-progress marker, records a
\* status (success or error) for that restaurant and sets the 5 s timer;
\* the timer clears the status.  The marker is set only while a call is in
\* flight, and a status is shown only while a timer is pending.
C20_BookingCompletes ==
    [][/\ BookingAccepted' => \A c \in ev'.req :
            bookingInFlight' = bookingInFlight (+) SetToBag({c})
       /\ BookingAnswered' => \A c \in ev'.req :
            /\ bookingInFlight' (+) SetToBag({c}) = bookingInFlight
            /\ bookingInProgress' = NULL
            /\ bookingStatus'.name = c.restaurant_name
            /\ bookingStatus'.status =
                  (IF ev'.resp.kind = "ok" THEN "success" ELSE "error")
            /\ bookingStatus'.message # NULL
            /\ bookingTimers' = bookingTimers + 1
       /\ StatusTimerFired' => bookingStatus' = NoStatus
       /\ bookingInProgress' # NULL => bookingInFlight' # EmptyBag
       /\ bookingStatus' # NoStatus => bookingTimers' > 0]_vars

\* C20 witness: a booking call has failed; the marker is cleared, the error
\* is recorded for the restaurant and the timer is pending
C20_Witness ==
    /\ BookingAnswered /\ ev.resp = Rejected("API error: 500 Internal Server Error")
    /\ bookingInProgress = NULL /\ bookingInFlight = EmptyBag
    /\ bookingStatus.status = "error"
    /\ bookingStatus.message = "API error: 500 Internal Server Error"
    /\ bookingTimers = 1

\* The frames sent on one socket: the config frame comes first and once, and
\* no audio frame comes after a commit frame
FramesInOrder(sent) ==
    /\ sent # <<>> => sent[1] = "config"
    /\ \A i \in 2..Len(sent) : sent[i] # "config"
    /\ \A i, j \in 1..Len(sent) : (i < j /\ sent[i] = "commit") => sent[j] # "audio"

\* the step is a close() of the open socket of session k by the client (a
\* close by the server or a failure makes the socket CLOSED at once)
ClosedByClient(k) ==
    /\ k <= Len(sessions)
    /\ sessions[k].readyState = "OPEN"
    /\ sessions'[k].readyState = "CLOSING"

\* C21: on every socket the config frame is the first frame sent, audio
\* frames come only after it and none after a commit frame; and when the
\* client closes an open socket, the commit frame is the last frame it has
\* sent on it, sent in the same step.
C21_FrameOrder ==
    [][\A k \in 1..Len(sessions') :
          /\ FramesInOrder(sessions'[k].sent)
          /\ ClosedByClient(k) =>
                sessions'[k].sent = Append(sessions[k].sent, "commit")]_vars

\* C21 witness: a socket on which config, audio and commit were sent, in that
\* order, is closing
C21_Witness ==
    \E k \in 1..Len(sessions) :
        /\ sessions[k].sent = <<"config", "audio", "commit">>
        /\ sessions[k].readyState = "CLOSING"

\* the last step was the catch block of a startRecording whose getUserMedia
\* was rejected
GumFailed == ev.op = "getUserMedia:rejected"

\* C22: when getUserMedia rejects, the error message is set and the recorder
\* is neither recording nor connecting; and the step that follows the failure
\* is not a startRecording made by the auto-start effect (no attempt is made
\* before the user acts).
C22_NoRetry ==
    [][/\ GumFailed' => (error' # NULL /\ ~isRecording' /\ ~isConnecting')
       /\ GumFailed => ev'.op # "autoStart"]_vars

\* the entries of a returned list that have a latitude and a longitude
HasCoordinates(r) == r.geolocation = "numbers"
WithCoordinates(results) == SelectSeq(results, HasCoordinates)

\* C23: when a search is answered with a list of at least one restaurant,
\* the results callback is called and the restaurants shown afterwards are
\* the entries of that list that have a valid geolocation, in the order of
\* the list, whatever was shown before; the count shown is their number and
\* the selection is the first of them.
C23_ResultsReplace ==
    [][SearchAnswered' => \A m \in ev'.msg :
          Len(m.results) > 0 =>
            /\ ev'.results
            /\ restaurants' = WithCoordinates(m.results)
            /\ resultCount' = Len(WithCoordinates(m.results))
            /\ selectedRestaurant' \in {restaurants'[i] : i \in 1..Len(restaurants')}
                                        \cup {NoRestaurant}]_vars

\* C23 witness: "Chez A" was shown; a later search returned "Chez B" and a
\* restaurant without geolocation, and "Chez B" alone is shown
C23_Witness ==
    /\ SearchAnswered
    /\ ev.msg = {[results |-> <<Restaurant("Chez B", "numbers"), Restaurant("Chez C", "null")>>,
                  before |-> <<Restaurant("Chez A", "numbers")>>]}
    /\ restaurants = <<Restaurant("Chez B", "numbers")>>
    /\ selectedRestaurant = Restaurant("Chez B", "numbers")

\* the last step was the failure of a socket: ws.onerror, then ws.onclose
SocketErrored == ev.op = "onerror"

\* the microphone stream, the AudioContext and the processor of session k
\* are released
Released(k) ==
    /\ sessions[k].stream # "live"
    /\ sessions[k].context \in {"none", "closed"}
    /\ sessions[k].processor # "connected"

\* C24: after the error event of a socket the error message is set, the
\* recorder is neither recording nor connecting, wsRef holds no socket (a
\* later startRecording starts from nothing) and the microphone stream, the
\* AudioContext and the processor of the session of that socket are released.
C24_ErrorClosesSession ==
    [][SocketErrored' => \A m \in ev'.msg :
          /\ error' = ConnectionError
          /\ ~isRecording' /\ ~isConnecting'
          /\ wsRef' = 0
          /\ sessions'[m.session].readyState = "CLOSED"
          /\ Released(m.session)']_vars

\* the last step was ws.onmessage of a session
FrameReceived == ev.op = "onmessage"

\* a frame that is not valid JSON, or a transcript message whose text is
\* missing, empty or white space
Malformed(data) ==
    \/ data.kind = "not JSON"
    \/ /\ data.kind = "object" /\ data.type = "transcript"
       /\ \/ data.text = "missing"
          \/ data.text = "string" /\ \A i \in 1..Len(data.textVal) : data.textVal[i] = " "

\* C25: a malformed frame changes neither the log, the cursor, the
\* per-speaker map nor the error shown, and leaves the socket as it was
\* (open, or closing, and still delivering frames).
C25_MalformedDropped ==
    [][FrameReceived' => \A m \in ev'.msg :
          Malformed(m.data) =>
            /\ fullTranscriptRef' = fullTranscriptRef
            /\ lastDeltaIndexRef' = lastDeltaIndexRef
            /\ speakerTranscripts' = speakerTranscripts
            /\ error' = error
            /\ sessions' = sessions
            /\ sessions'[m.session].readyState \in {"OPEN", "CLOSING"}]_vars

\* C25 witness: a frame that is not JSON has come on a socket that had
\* delivered a transcript and an error message before; the log and the
\* message are still there
C25_Witness ==
    /\ FrameReceived
    /\ \E m \in ev.msg : m.data = NotJson /\ sessions[m.session].readyState = "OPEN"
    /\ fullTranscriptRef = LabeledText(1, Hello)
    /\ error = "quota exceeded"

\* the step starts a cycle: runCycle passes the test of line 160
StartsCycle == cyclesStarted' = cyclesStarted + 1

\* C26: the first cycle after a startLoop (cycleCount, which startLoop sets
\* to 0, is still 0) starts from an initial-delay timer, and every later
\* cycle from a cycle-interval timer.
C26_CyclesFromTimers ==
    [][StartsCycle => \A t \in ev'.msg :
          IF cycleCount = 0 THEN t.kind = "initial" ELSE t.kind = "cycle"]_vars

\* No extraction request and no search request of the loop is in flight (a
\* cycle runs to its first await within one step, so no cycle is executing)
LoopIdle == extractInFlight = EmptyBag /\ searchInFlight = EmptyBag

\* C27: whenever no cycle is executing and no extraction or search request is
\* in flight, isProcessing is false.
C27_ProcessingReflectsWork == LoopIdle => ~isProcessing

\* One call of streamRestaurants
NextStream ==
    \/ StartStream
    \/ /\ streamPc = "fetching"
       /\ \E status \in {"ok", "not ok", "no body"}, es \in EventLists :
             FetchResolves(status, es)
    \/ StreamFails
    \/ Abort
    \/ \E k \in 1..Len(wire), aborter \in Aborters : ReadResolves(k, aborter)
    \/ ReadDone

SpecStream == Init /\ [][NextStream]_vars

\* The transcription socket of useLiveScribe
NextScribe ==
    \/ \E data \in ScribeFrames : ScribeMessage(data)
    \/ ClearTranscript

SpecScribe == Init /\ [][NextScribe]_vars

\* a callback of the stream was invoked when the controller's signal was
\* already aborted
CalledAfterAbort == \E i \in DOMAIN calls : calls[i].afterAbort

\* C28: once the controller of streamRestaurants is aborted, none of
\* onRestaurant, onDone and onError is invoked again, the abort included (it
\* is not reported through onError).
C28_AbortSilences == ~CalledAfterAbort

IsOnRestaurant(c) == c.fn = "onRestaurant"
IsOnDone(c) == c.fn = "onDone"
\* the complete data events of the response that carry a restaurant record
\* with its coordinates
WellFormedEvents == {i \in DOMAIN served : served[i] = "A"}
DoneEventReceived == \E i \in DOMAIN served : served[i] = "done"

\* C29: when the stream has ended without abort and without failure, onDone
\* was called exactly once, with the count of the server's done event if there
\* was one and else with the number of onRestaurant calls, and onRestaurant
\* was called once for each complete data event that carries a restaurant
\* with its coordinates, whatever the chunks were.
C29_DoneOnce ==
    streamPc = "done" =>
        LET dones == SelectSeq(calls, IsOnDone)
            delivered == SelectSeq(calls, IsOnRestaurant)
        IN  /\ Len(dones) = 1
            /\ dones[1].count = IF DoneEventReceived THEN ParseInt(JsonSeven)
                                ELSE Len(delivered)
            /\ Len(delivered) = Cardinality(WellFormedEvents)
            /\ \A i \in DOMAIN delivered : delivered[i].restaurant = ChezA

\* the stream has ended after chunks that ended inside an event, a restaurant
\* was delivered and the server's done event was received
C29_Witness ==
    /\ streamPc = "done" /\ ~aborted /\ splitSeen
    /\ DoneEventReceived
    /\ \E i \in DOMAIN calls : calls[i].fn = "onRestaurant"

\* the segments of speaker `s` in the transcript that are not final
OpenSegments(list, s) ==
    {i \in DOMAIN list : ~list[i].is_final /\ list[i].speaker_id = s}

\* C30: the transcript of useLiveScribe holds at most one non-final segment
\* per speaker; a transcript frame that is final appends its segment, and one
\* that is not final takes the place of the non-final segment of its speaker
\* when there is one.
C30_OneOpenSegment ==
    /\ \A s \in {0, 1} : Cardinality(OpenSegments(transcript, s)) <= 1
    /\ \A m \in (IF ev.op = "scribe:onmessage" THEN ev.msg ELSE {}) :
          m.data.type = "transcript" =>
             LET last == transcript[Len(transcript)]
                 open == OpenSegments(m.before, IF m.data.speaker_id = "1" THEN 1 ELSE 0)
             IN  IF m.data.is_final = "true" \/ open = {}
                 THEN /\ Len(transcript) = Len(m.before) + 1
                      /\ SubSeq(transcript, 1, Len(m.before)) = m.before
                      /\ last.id = scribeReceived
                      /\ last.is_final = (m.data.is_final = "true")
                 ELSE /\ Len(transcript) = Len(m.before)
                      /\ \A i \in DOMAIN transcript :
                            IF i \in open
                            THEN transcript[i].id = scribeReceived
                                 /\ ~transcript[i].is_final
                            ELSE transcript[i] = m.before[i]

\* a non-final segment has taken the place of an older one of its speaker
\* after a final segment of that speaker was appended behind it
C30_Witness ==
    \E i, j \in DOMAIN transcript :
        /\ i < j
        /\ ~transcript[i].is_final /\ transcript[j].is_final
        /\ transcript[i].speaker_id = transcript[j].speaker_id
        /\ transcript[i].id > transcript[j].id

\* C31: the non-empty strings getDeltaTranscript has returned since the last
\* clearTranscripts, joined with single spaces, are the log up to the
\* cursor, and the whole log right after a getDeltaTranscript.
C31_DeltasCoverLog ==
    /\ deltasJoined = SubSeq(fullTranscriptRef, 1, lastDeltaIndexRef)
    /\ DeltaRead => deltasJoined = fullTranscriptRef

\* two deltas were returned, the second after a further fragment, and a
\* getDeltaTranscript has just returned
C31_Witness ==
    /\ DeltaRead
    /\ FragmentCount(fullTranscriptRef) = 2
    /\ ev.value # <<>> /\ ev.value # fullTranscriptRef
    /\ lastDeltaIndexRef = Len(fullTranscriptRef)

\* C32: the step of a cycle that sends an extraction request has moved the
\* cursor to the end of the log, and the request carries the text between the
\* old cursor and that end; the answer to an extraction request, a failure
\* included, leaves the cursor and the log as they are; the cursor goes back
\* only when the log is emptied.  The text of a delta whose extraction fails
\* is therefore in that one request and in no later one.
C32_ConsumedWhenRead ==
    [][/\ ev'.op = "runCycle:extract" =>
             /\ \A r \in ev'.req :
                   r.transcript = Trim(SubSeq(fullTranscriptRef, lastDeltaIndexRef + 1,
                                              Len(fullTranscriptRef)))
             /\ lastDeltaIndexRef' = Len(fullTranscriptRef)
             /\ fullTranscriptRef' = fullTranscriptRef
       /\ ev'.op = "extractResponse" =>
             UNCHANGED <<lastDeltaIndexRef, fullTranscriptRef>>
       /\ lastDeltaIndexRef' < lastDeltaIndexRef =>
             fullTranscriptRef' = <<>> /\ lastDeltaIndexRef' = 0]_vars

\* an extraction has failed, and a later cycle sends a request with the text
\* that came after the delta of the failed one
C32_Witness ==
    /\ ev.op = "runCycle:extract"
    /\ lastError # NULL
    /\ cyclesStarted = 2
    /\ \E r \in ev.req : r.transcript # <<>> /\ r.transcript # fullTranscriptRef


\* the text `a` is the beginning of the longer text `b`
ProperPrefix(a, b) == Len(a) < Len(b) /\ SubSeq(b, 1, Len(a)) = a

\* Of two searches of the voice loop, the one with the shorter prompt was
\* issued first: the prompt is the master list joined, and runCycle only
\* appends to the master list.
IssuedBefore(a, b) == ProperPrefix(a.prompt, b.prompt)

\* C33: the restaurants shown are never replaced by the answer to a search
\* issued before the search whose answer is shown.
C33_NoOlderResults ==
    [][SearchAnswered' /\ ev'.results =>
          \A s \in ev'.req : ~IssuedBefore(s, [prompt |-> shownFor])]_vars

\* C33, the case: the answer to the later of two searches is shown while the
\* earlier search is still awaiting its answer
C33_LateAnswerPending ==
    \E s \in BagToSet(searchInFlight) : IssuedBefore(s, [prompt |-> shownFor])


----------------------------------------------------------------------------
\* StreetView: the manual search, the results of the voice loop, the markers,
\* and the two effects on the selected restaurant

\* the dish requests, and the route requests, that may await their answer
\* at a time
MaxPending == 2

Pizza == <<"p","i","z","z","a">>
NoValidResults == "No restaurants found with valid locations. Try a different search."

\* the lists the search endpoint returns to StreetView: each names a
\* restaurant once
ViewLists ==
    {<<ChezC>>, <<ChezA>>, <<Restaurant("Chez B", "numbers"), ChezC, ChezA>>}

\* what POST /api/exa/dishes finds for the restaurant it is asked about
DishesOf(r) == <<[restaurant |-> r.name]>>

\* the OSRM route to a restaurant, and the straight line of the fallback
OsrmRoute(r) == <<"user", "road", r.name>>
StraightLine(r) == <<"user", r.name>>
Distance(r, by) == [to |-> r.name, by |-> by]

viewOutside == <<voiceVars, bookVars, parseVars, sessVars, streamVars, scribeVars, liveVars>>

CanFetch ==
    /\ BagCardinality(dishFetches) < MaxPending
    /\ BagCardinality(routeFetches) < MaxPending

\* The two effects with the dependency [selectedRestaurant], lines 321-352
\* and 354-402, up to their awaits, as run by the render in which the
\* selection has become `next`.  `changed`: the selection is not the object
\* it was, so the effects run.
Effects(next, changed) ==
    IF ~changed
    THEN UNCHANGED <<dishes, dishesLoading, routeCoordinates, routeDistance,
                     dishFetches, routeFetches>>
    ELSE IF next = NoRestaurant
    THEN /\ dishes' = <<>> /\ dishesLoading' = FALSE
         /\ routeCoordinates' = <<>> /\ routeDistance' = NoDistance
         /\ UNCHANGED <<dishFetches, routeFetches>>
    ELSE /\ CanFetch
         /\ dishesLoading' = TRUE /\ dishes' = <<>>
         /\ dishFetches' = Add(dishFetches, next)
         /\ routeFetches' = Add(routeFetches, next)
         /\ UNCHANGED <<routeCoordinates, routeDistance>>

\* handleSearch, lines 404-412: up to the await.  The form and the mic
\* button that call it are disabled while isLoading (SearchBar, lines 234,
\* 242 and 267).
handleSearch(query) ==
    /\ ~isLoading
    /\ isLoading' = TRUE /\ viewError' = NULL
    /\ restaurants' = <<>> /\ resultCount' = NULL
    /\ selectedRestaurant' = NoRestaurant /\ shownFor' = <<>>
    /\ manualInFlight' = Add(manualInFlight, [prompt |-> query])
    /\ Effects(NoRestaurant, selectedRestaurant # NoRestaurant)
    /\ ev' = [Did("handleSearch") EXCEPT !.req = {[prompt |-> query]}]
    /\ UNCHANGED viewOutside

\* the manual search `s` is answered with the list `results`: handleSearch,
\* lines 414-430 and 440-442
ManualSearchReturns(s, results) ==
    LET validResults == SelectSeq(results, ValidGeolocation)
    IN  /\ manualInFlight' = Remove(manualInFlight, s)
        /\ restaurants' = validResults
        /\ resultCount' = Len(validResults)
        /\ shownFor' = s.prompt
        /\ IF Len(validResults) > 0
           THEN /\ selectedRestaurant' = validResults[1]
                /\ Effects(validResults[1], TRUE)
                /\ UNCHANGED viewError
           ELSE /\ viewError' = NoValidResults
                /\ Effects(selectedRestaurant, FALSE)
                /\ UNCHANGED selectedRestaurant
        /\ isLoading' = FALSE
        /\ ev' = [Did("handleSearch:response") EXCEPT !.req = {s}]
        /\ UNCHANGED viewOutside

\* the manual search `s` fails: handleSearch, lines 431-442
ManualSearchFails(s, e) ==
    /\ manualInFlight' = Remove(manualInFlight, s)
    /\ viewError' = IF e = NotAnError
                    THEN "Failed to search restaurants. Please try again." ELSE e
    /\ isLoading' = FALSE
    /\ ev' = [Did("handleSearch:failed") EXCEPT !.req = {s}]
    /\ UNCHANGED <<mapVars, dishes, dishesLoading, routeCoordinates, routeDistance,
                   dishFetches, routeFetches, viewOutside>>

\* the voice loop hands over the answer to its search `s`: onExaResults
\* (SearchBar, lines 75-81) calls onRestaurantsFound, lines 711-726, and the
\* effects run
RestaurantsFound(s, results) ==
    /\ onRestaurantsFound(results)
    /\ shownFor' = s.prompt
    /\ Effects(selectedRestaurant',
               selectedRestaurant' # NoRestaurant \/ selectedRestaurant # NoRestaurant)
    /\ ev' = [Did("onRestaurantsFound") EXCEPT !.req = {s}]
    /\ UNCHANGED <<isLoading, viewError, manualInFlight, viewOutside>>

\* the marker of the i-th restaurant shown is clicked: line 551
MarkerClick(i) ==
    /\ selectedRestaurant' = restaurants[i]
    /\ Effects(restaurants[i], restaurants[i] # selectedRestaurant)
    /\ ev' = Did("markerClick")
    /\ UNCHANGED <<restaurants, resultCount, shownFor, isLoading, viewError,
                   manualInFlight, viewOutside>>

\* the dish request for restaurant `r` is answered ("dishes": a list that is
\* not empty, "none": an empty list, "failed": a rejected promise):
\* fetchDishes, lines 340-349
DishesReturn(r, outcome) ==
    /\ dishFetches' = Remove(dishFetches, r)
    /\ dishes' = IF outcome = "dishes" THEN DishesOf(r) ELSE dishes
    /\ dishesLoading' = FALSE
    /\ ev' = [Did("fetchDishes:response") EXCEPT !.msg = {r}]
    /\ UNCHANGED <<mapVars, isLoading, viewError, routeCoordinates, routeDistance,
                   manualInFlight, routeFetches, viewOutside>>

\* the route request for restaurant `r` is answered ("route": a route,
\* "none": no route in the body, "failed": a failed fetch or a status that is
\* not ok): fetchRoute, lines 370-397
RouteReturns(r, outcome) ==
    /\ routeFetches' = Remove(routeFetches, r)
    /\ routeCoordinates' =
          IF outcome = "route" THEN OsrmRoute(r)
          ELSE IF outcome = "failed" THEN StraightLine(r)
          ELSE routeCoordinates
    /\ routeDistance' =
          IF outcome = "route" THEN Distance(r, "osrm")
          ELSE IF outcome = "failed" THEN Distance(r, "haversine")
          ELSE routeDistance
    /\ ev' = [Did("fetchRoute:response") EXCEPT !.msg = {r}]
    /\ UNCHANGED <<mapVars, isLoading, viewError, dishes, dishesLoading,
                   manualInFlight, dishFetches, viewOutside>>

\* StreetView with a manual search, the results of a voice loop and the
\* markers
NextView ==
    \/ handleSearch(Pizza)
    \/ \E s \in BagToSet(manualInFlight) : \E results \in ViewLists :
         ManualSearchReturns(s, results)
    \/ \E s \in BagToSet(manualInFlight) : ManualSearchFails(s, NotAnError)
    \/ \E results \in ViewLists :
         RestaurantsFound([prompt |-> Italian], results)
    \/ \E i \in 1..Len(restaurants) : MarkerClick(i)
    \/ \E r \in BagToSet(dishFetches) : \E outcome \in {"dishes", "none", "failed"} :
         DishesReturn(r, outcome)
    \/ \E r \in BagToSet(routeFetches) : \E outcome \in {"route", "none", "failed"} :
         RouteReturns(r, outcome)

SpecView == Init /\ [][NextView]_vars

\* C34: the dishes and the route shown are those of the selected restaurant,
\* and with no restaurant selected and no dish or route request pending
\* there are no dishes and no route.
C34_DishesAndRouteOfSelection ==
    /\ \A i \in 1..Len(dishes) : dishes[i].restaurant = selectedRestaurant.name
    /\ routeCoordinates # <<>> =>
          routeCoordinates[Len(routeCoordinates)] = selectedRestaurant.name
    /\ (/\ selectedRestaurant = NoRestaurant
        /\ dishFetches = EmptyBag /\ routeFetches = EmptyBag)
          => dishes = <<>> /\ routeCoordinates = <<>>

\* C38: the selected restaurant is none or one of the restaurants shown, and
\* every restaurant shown has a latitude and a longitude that are numbers.
C38_SelectionShown ==
    /\ \/ selectedRestaurant = NoRestaurant
       \/ \E i \in 1..Len(restaurants) : restaurants[i] = selectedRestaurant
    /\ \A i \in 1..Len(restaurants) : ValidGeolocation(restaurants[i])


\* C35: a booking status is cleared by the timer of its own booking only.
\* (The timers have the same delay of 5 s, so of the timers pending the one
\* that fires is the oldest; the status shown is that of the booking
\* answered last, whose timer is the youngest.  A timer that fires with
\* another one pending while a status is shown is therefore the timer of an
\* earlier booking.)
C35_OwnTimerClears ==
    [][ev'.op = "booking:statusTimer" /\ bookingStatus # NoStatus
          => bookingTimers = 1]_vars


\* C36: once stopRecording has been called, and until startRecording is
\* called again, isRecording is false and no audio frame is sent.
C36_StoppedStaysStopped ==
    [][stopped' => ~isRecording' /\ ev'.op # "onaudioprocess"]_vars


----------------------------------------------------------------------------
\* LiveMap: the watched position and the search it starts

\* the searches that may await their answer at a time
MaxLiveSearches == 2

\* the positions the browser reports, and the fallback of line 88
Positions == {"here", "there"}
London == "London"

\* the transcript prop: a text shorter than 5 characters, and a longer one
LiveTranscripts == {<<>>, <<"h","i">>, Pizza}

liveOutside == <<voiceVars, bookVars, parseVars, sessVars, mapVars, streamVars,
                 scribeVars, viewVars>>

\* searchRestaurants, lines 103-106: the search is made
Searches(pos, text) == pos # NULL /\ text # <<>> /\ ~hasSearchedRef /\ Len(text) >= 5

\* The effect with the dependencies [position, transcript], lines 101-145,
\* up to its await, as run by the render in which the position has become
\* `pos` (a new object at every update) with the transcript `text`
SearchEffect(pos, text) ==
    IF Searches(pos, text)
    THEN /\ BagCardinality(liveInFlight) < MaxLiveSearches
         /\ searching' = TRUE /\ searchError' = NULL
         /\ liveInFlight' = Add(liveInFlight, [position |-> pos, transcript |-> text])
    ELSE UNCHANGED <<searching, searchError, liveInFlight>>

\* watchPosition reports a position: lines 76-83, and the effect
PositionFound(pos, text) ==
    /\ position' = pos /\ loading' = FALSE /\ geoError' = NULL
    /\ SearchEffect(pos, text)
    /\ ev' = [Did("watchPosition") EXCEPT !.value = text]
    /\ UNCHANGED <<liveRestaurants, hasSearchedRef, liveOutside>>

\* watchPosition reports an error: lines 84-89, and the effect
PositionFails(text) ==
    /\ geoError' = "Unable to get your location" /\ loading' = FALSE
    /\ position' = London
    /\ SearchEffect(London, text)
    /\ ev' = [Did("watchPosition:error") EXCEPT !.value = text]
    /\ UNCHANGED <<liveRestaurants, hasSearchedRef, liveOutside>>

\* the search `s` is answered with the list `data`: lines 128-131 and 135-137
LiveSearchReturns(s, data) ==
    /\ liveInFlight' = Remove(liveInFlight, s)
    /\ liveRestaurants' = data
    /\ hasSearchedRef' = TRUE
    /\ searching' = FALSE
    /\ ev' = [Did("searchRestaurants:response") EXCEPT !.req = {s}]
    /\ UNCHANGED <<position, loading, geoError, searchError, liveOutside>>

\* the search `s` fails (a failed fetch, a status that is not ok, a body that
\* is not JSON): lines 124-126 and 132-137
LiveSearchFails(s, e) ==
    /\ liveInFlight' = Remove(liveInFlight, s)
    /\ searchError' = IF e = NotAnError THEN "Search failed" ELSE e
    /\ searching' = FALSE
    /\ ev' = [Did("searchRestaurants:failed") EXCEPT !.req = {s}]
    /\ UNCHANGED <<position, loading, geoError, liveRestaurants, hasSearchedRef,
                   liveOutside>>

NextLive ==
    \/ \E pos \in Positions : \E text \in LiveTranscripts : PositionFound(pos, text)
    \/ \E text \in LiveTranscripts : PositionFails(text)
    \/ \E s \in BagToSet(liveInFlight) : \E data \in ViewLists : LiveSearchReturns(s, data)
    \/ \E s \in BagToSet(liveInFlight) : \E e \in Thrown : LiveSearchFails(s, e)

SpecLive == Init /\ [][NextLive]_vars

\* a position update: the last step was a callback of watchPosition
PositionUpdated == ev.op \in {"watchPosition", "watchPosition:error"}

\* C37: a position update starts no search while a search is awaiting its
\* answer, nor after a search has succeeded.
C37_SearchesOnce ==
    [][PositionUpdated' /\ (liveInFlight # EmptyBag \/ hasSearchedRef)
          => liveInFlight' = liveInFlight]_vars


\* the last step was a call of startLoop, by the start-loop effect or by
\* handleMicClick
StartLoopCalled == ev.op \in {"effect:startLoop", "mic:startLoop"}

\* C39: a startLoop called while the loop is active changes neither the
\* requirement list, nor the cycle count, nor the last error, and sets no
\* timer.
C39_StartLoopNoOp ==
    [][StartLoopCalled' /\ isLoopActiveRef
          => UNCHANGED <<requirements, cycleCount, lastError, timers, loopTimeoutRef>>]_vars

\* C39 witness: startLoop has been called by handleMicClick in a loop that the
\* effect had started and that has run a cycle and holds a requirement; the
\* loop is as it was
C39_Witness ==
    /\ ev.op = "mic:startLoop"
    /\ isLoopActiveRef /\ cycleCount > 0 /\ requirements # <<>>

====
